---- MODULE Spec2Model ----
(***************************************************************************)
(* Layered secrets resolution of scripts/vcf_secrets.py: SecretsManager    *)
(* (get_secret, _load_secrets_file, the typed wrappers, has_secrets_file,  *)
(* get_secrets_info) and load_config_with_secrets.                         *)
(*                                                                         *)
(* Python values are tagged records, so that None, the empty string, a     *)
(* mapping, a list and a number stay distinct and comparable.              *)
(***************************************************************************)
EXTENDS Naturals, Sequences, FiniteSets, TLC

(***************************************************************************)
(* Python values                                                           *)
(***************************************************************************)
None == [t |-> "None"]
Str(s) == [t |-> "str", s |-> s]
Int(n) == [t |-> "int", n |-> n]
List(items) == [t |-> "list", items |-> items]
Dict(m) == [t |-> "dict", m |-> m]

\* bool(v): the truth value Python's `if v:` tests.
Truthy(v) ==
    CASE v.t = "None" -> FALSE
      [] v.t = "str" -> v.s # ""
      [] v.t = "int" -> v.n # 0
      [] v.t = "list" -> Len(v.items) > 0
      [] v.t = "dict" -> DOMAIN v.m # {}

\* The empty mapping {} (a function with the empty domain).
EmptyMap == [k \in {} |-> None]

(***************************************************************************)
(* The fixed names of the typed wrappers                                   *)
(***************************************************************************)
Keys == {"esxi_root_password", "vcf_installer_root_password",
         "vcf_installer_admin_password", "vcenter_password"}

EnvVars == {"VCF_ESXI_ROOT_PASSWORD", "VCF_INSTALLER_ROOT_PASSWORD",
            "VCF_INSTALLER_ADMIN_PASSWORD", "VCF_VCENTER_PASSWORD"}

(***************************************************************************)
(* Bounds                                                                  *)
(***************************************************************************)
\* Calls stop once the secrets file has been opened this many times.
MaxOpens == 2
\* Calls stop once exists() has reported the file absent this many times.
MaxProbes == 2

(***************************************************************************)
(* Input universes                                                         *)
(***************************************************************************)
\* What os.environ holds for a variable: unset (None), empty, or a value.
EnvValues == {None, Str(""), Str("envpass")}

\* Process environments: at most one of the four variables is not unset.
Environments ==
    {e \in [EnvVars -> EnvValues] :
        \A v, w \in EnvVars : (e[v] # None /\ e[w] # None) => v = w}

\* Values a key of the secrets file can be mapped to (null, "", a password).
FileValues == {None, Str(""), Str("filepass")}

\* Parsed secrets documents that are mappings: {}, every one-entry mapping,
\* and a mapping holding all four keys.
SecretsMappings ==
    {Dict(EmptyMap)}
    \cup {Dict([k \in {key} |-> v]) : key \in Keys, v \in FileValues}
    \cup {Dict([k \in Keys |-> Str("filepass")])}

\* Parsed documents that are valid YAML but no mapping: a list that holds a
\* key name, a bare string that is a key name, and a number.
OtherDocuments ==
    {List(<<Str("esxi_root_password")>>), Str("esxi_root_password"), Int(42)}

\* States of config/vcf-secrets.yaml on disk.
\*   absent      - Path.exists() is False
\*   unreadable  - open() raises OSError
\*   malformed   - yaml.safe_load raises YAMLError
\*   undecodable - reading raises UnicodeDecodeError (not valid UTF-8)
\*   doc         - parses; an empty file parses to None
SecretsFileStates ==
    {[t |-> "absent"], [t |-> "unreadable"], [t |-> "malformed"],
     [t |-> "undecodable"]}
    \cup {[t |-> "doc", doc |-> d] :
            d \in {None} \cup SecretsMappings \cup OtherDocuments}

\* config_value arguments: not given / null, empty, a password.
ConfigValues == {None, Str(""), Str("configpass")}

\* Arguments of the direct get_secret calls: two of the keys, and env_var
\* not given or one of the two matching variables (so a call can name the
\* variable of its key or the variable of another key).
CallKeys == {"esxi_root_password", "vcenter_password"}
EnvVarArgs == {None, Str("VCF_ESXI_ROOT_PASSWORD"), Str("VCF_VCENTER_PASSWORD")}

\* What getpass.getpass yields: an empty line, a typed password, or
\* end-of-input (EOFError).
EOF == [t |-> "EOF"]
Typed == {Str(""), Str("typedpass"), EOF}

(***************************************************************************)
(* SecretsManager: pure steps of get_secret                                *)
(***************************************************************************)
\* os.environ.get(name)
EnvGet(env, name) == IF name \in DOMAIN env THEN env[name] ELSE None

\* Variant of priority 1 that tests `if env_value is not None:`.
EnvHitWhenSet(env, env_var) ==
    Truthy(env_var) /\ EnvGet(env, env_var.s) # None

\* Priority 1: `if env_var:` and then `if env_value:`.
EnvHit(env, env_var) == Truthy(env_var) /\ Truthy(EnvGet(env, env_var.s))

\* `a in b` for two strings. No string of the model is a proper substring of
\* another, so containment is equality here.
IsSubstring(a, b) == a = b

\* `key in secrets` for a truthy parsed document: "yes", "no" or the
\* exception it raises.
KeyIn(key, doc) ==
    CASE doc.t = "dict" -> IF key \in DOMAIN doc.m THEN "yes" ELSE "no"
      [] doc.t = "list" ->
            IF \E i \in 1..Len(doc.items) : doc.items[i] = Str(key)
            THEN "yes" ELSE "no"
      [] doc.t = "str" -> IF IsSubstring(key, doc.s) THEN "yes" ELSE "no"
      [] OTHER -> "TypeError"

\* Variant of _load_secrets_file whose except clause names OSError only, so
\* that a YAML syntax error leaves the function as an exception.
LoadSecretsFileOSErrorOnly(c, d) ==
    IF c # None
    THEN [ret |-> c, exc |-> "", cache |-> c,
          probed |-> FALSE, opened |-> FALSE, warned |-> FALSE]
    ELSE CASE d.t = "absent" ->
                [ret |-> None, exc |-> "", cache |-> c,
                 probed |-> TRUE, opened |-> FALSE, warned |-> FALSE]
           [] d.t = "unreadable" ->
                [ret |-> None, exc |-> "", cache |-> c,
                 probed |-> TRUE, opened |-> TRUE, warned |-> TRUE]
           [] d.t = "malformed" ->
                [ret |-> None, exc |-> "YAMLError", cache |-> c,
                 probed |-> TRUE, opened |-> TRUE, warned |-> FALSE]
           [] d.t = "undecodable" ->
                [ret |-> None, exc |-> "UnicodeDecodeError", cache |-> c,
                 probed |-> TRUE, opened |-> TRUE, warned |-> FALSE]
           [] d.t = "doc" ->
                [ret |-> d.doc, exc |-> "", cache |-> d.doc,
                 probed |-> TRUE, opened |-> TRUE, warned |-> FALSE]

\* _load_secrets_file: what it returns (ret) or raises (exc), the cache it
\* leaves, and whether it called exists() (probed), called open() (opened)
\* and printed the WARNING line (warned).
LoadSecretsFile(c, d) ==
    IF c # None
    THEN [ret |-> c, exc |-> "", cache |-> c,
          probed |-> FALSE, opened |-> FALSE, warned |-> FALSE]
    ELSE CASE d.t = "absent" ->
                [ret |-> None, exc |-> "", cache |-> c,
                 probed |-> TRUE, opened |-> FALSE, warned |-> FALSE]
           [] d.t \in {"unreadable", "malformed"} ->
                [ret |-> None, exc |-> "", cache |-> c,
                 probed |-> TRUE, opened |-> TRUE, warned |-> TRUE]
           [] d.t = "undecodable" ->
                [ret |-> None, exc |-> "UnicodeDecodeError", cache |-> c,
                 probed |-> TRUE, opened |-> TRUE, warned |-> FALSE]
           [] d.t = "doc" ->
                [ret |-> d.doc, exc |-> "", cache |-> d.doc,
                 probed |-> TRUE, opened |-> TRUE, warned |-> FALSE]

\* Variant of priority 2 that tests the value instead of the key
\* (`if secrets and secrets.get(key):`), for mappings.
FileLookupTruthyValue(secrets, key) ==
    IF ~Truthy(secrets)
    THEN [hit |-> FALSE, exc |-> "", value |-> None]
    ELSE CASE KeyIn(key, secrets) = "TypeError" ->
                [hit |-> TRUE, exc |-> "TypeError", value |-> None]
           [] KeyIn(key, secrets) = "no" ->
                [hit |-> FALSE, exc |-> "", value |-> None]
           [] KeyIn(key, secrets) = "yes" ->
                IF secrets.t = "dict"
                THEN IF Truthy(secrets.m[key])
                     THEN [hit |-> TRUE, exc |-> "", value |-> secrets.m[key]]
                     ELSE [hit |-> FALSE, exc |-> "", value |-> None]
                ELSE [hit |-> TRUE, exc |-> "TypeError", value |-> None]

\* Priority 2: `if secrets and key in secrets: return secrets[key]`.
\* hit: the call ends here, returning value or raising exc.
FileLookup(secrets, key) ==
    IF ~Truthy(secrets)
    THEN [hit |-> FALSE, exc |-> "", value |-> None]
    ELSE CASE KeyIn(key, secrets) = "TypeError" ->
                [hit |-> TRUE, exc |-> "TypeError", value |-> None]
           [] KeyIn(key, secrets) = "no" ->
                [hit |-> FALSE, exc |-> "", value |-> None]
           [] KeyIn(key, secrets) = "yes" ->
                IF secrets.t = "dict"
                THEN [hit |-> TRUE, exc |-> "", value |-> secrets.m[key]]
                ELSE [hit |-> TRUE, exc |-> "TypeError", value |-> None]

\* Variant of the fallback that prompts before it looks at config_value.
FallbackPromptFirst(config_value, required, typed) ==
    IF required
    THEN IF typed = EOF
         THEN [kind |-> "raise", value |-> None, exc |-> "EOFError",
               prompted |-> TRUE]
         ELSE [kind |-> "return", value |-> typed, exc |-> "",
               prompted |-> TRUE]
    ELSE IF Truthy(config_value)
    THEN [kind |-> "return", value |-> config_value, exc |-> "",
          prompted |-> FALSE]
    ELSE [kind |-> "return", value |-> None, exc |-> "", prompted |-> FALSE]

\* Variant of the fallback that tests `config_value is not None`.
FallbackNotNone(config_value, required, typed) ==
    IF config_value # None
    THEN [kind |-> "return", value |-> config_value, exc |-> "",
          prompted |-> FALSE]
    ELSE IF required
    THEN IF typed = EOF
         THEN [kind |-> "raise", value |-> None, exc |-> "EOFError",
               prompted |-> TRUE]
         ELSE [kind |-> "return", value |-> typed, exc |-> "",
               prompted |-> TRUE]
    ELSE [kind |-> "return", value |-> None, exc |-> "", prompted |-> FALSE]

\* Variant of the fallback that swallows end-of-input at the prompt
\* (`except EOFError: return ""`).
FallbackEOFAsEmpty(config_value, required, typed) ==
    IF Truthy(config_value)
    THEN [kind |-> "return", value |-> config_value, exc |-> "",
          prompted |-> FALSE]
    ELSE IF required
    THEN IF typed = EOF
         THEN [kind |-> "return", value |-> Str(""), exc |-> "",
               prompted |-> TRUE]
         ELSE [kind |-> "return", value |-> typed, exc |-> "",
               prompted |-> TRUE]
    ELSE [kind |-> "return", value |-> None, exc |-> "", prompted |-> FALSE]

\* Variant of the fallback that prompts whether or not the secret is
\* required.
FallbackPromptsWhenOptional(config_value, required, typed) ==
    IF Truthy(config_value)
    THEN [kind |-> "return", value |-> config_value, exc |-> "",
          prompted |-> FALSE]
    ELSE IF typed = EOF
    THEN [kind |-> "raise", value |-> None, exc |-> "EOFError",
          prompted |-> TRUE]
    ELSE [kind |-> "return", value |-> typed, exc |-> "", prompted |-> TRUE]

\* Priorities 3 and 4 and the final `return None`.
Fallback(config_value, required, typed) ==
    IF Truthy(config_value)
    THEN [kind |-> "return", value |-> config_value, exc |-> "",
          prompted |-> FALSE]
    ELSE IF required
    THEN IF typed = EOF
         THEN [kind |-> "raise", value |-> None, exc |-> "EOFError",
               prompted |-> TRUE]
         ELSE [kind |-> "return", value |-> typed, exc |-> "",
               prompted |-> TRUE]
    ELSE [kind |-> "return", value |-> None, exc |-> "", prompted |-> FALSE]

\* Variant of get_secret that consults the secrets file before the
\* environment variable.
GetSecretFileFirst(c, d, env, key, config_value, env_var, required, typed) ==
    LET l == LoadSecretsFile(c, d)
        f == FileLookup(l.ret, key)
        b == Fallback(config_value, required, typed)
        fs == [cache |-> l.cache, probed |-> l.probed,
               opened |-> l.opened, warned |-> l.warned]
    IN  IF l.exc # ""
        THEN fs @@ [kind |-> "raise", value |-> None, exc |-> l.exc,
                    prompted |-> FALSE]
        ELSE IF f.hit
        THEN fs @@ [kind |-> IF f.exc = "" THEN "return" ELSE "raise",
                    value |-> f.value, exc |-> f.exc, prompted |-> FALSE]
        ELSE IF EnvHit(env, env_var)
        THEN fs @@ [kind |-> "return", value |-> EnvGet(env, env_var.s),
                    exc |-> "", prompted |-> FALSE]
        ELSE fs @@ b

\* get_secret on an instance whose cache is c, with the secrets file in
\* state d and the process environment env; typed is what the operator
\* enters if the prompt is reached.
GetSecret(c, d, env, key, config_value, env_var, required, typed) ==
    IF EnvHit(env, env_var)
    THEN [kind |-> "return", value |-> EnvGet(env, env_var.s), exc |-> "",
          cache |-> c, probed |-> FALSE, opened |-> FALSE, warned |-> FALSE,
          prompted |-> FALSE]
    ELSE LET l == LoadSecretsFile(c, d)
             f == FileLookup(l.ret, key)
             b == Fallback(config_value, required, typed)
             fs == [cache |-> l.cache, probed |-> l.probed,
                    opened |-> l.opened, warned |-> l.warned]
         IN  IF l.exc # ""
             THEN fs @@ [kind |-> "raise", value |-> None, exc |-> l.exc,
                         prompted |-> FALSE]
             ELSE IF f.hit
             THEN fs @@ [kind |-> IF f.exc = "" THEN "return" ELSE "raise",
                         value |-> f.value, exc |-> f.exc,
                         prompted |-> FALSE]
             ELSE fs @@ b

\* A typed wrapper: get_secret with a fixed key and variable and
\* required=True, then `assert password is not None`. key: the key it
\* resolved (the prompt is labelled with it).
TypedWrapper(c, d, env, key, var, config_value, typed) ==
    LET r == GetSecret(c, d, env, key, config_value, Str(var), TRUE, typed)
                @@ [key |-> key]
    IN  IF r.kind = "return" /\ r.value = None
        THEN [r EXCEPT !.kind = "raise", !.exc = "AssertionError"]
        ELSE r

\* Variant of get_esxi_root_password that carries the key and variable of
\* the installer's root password (a copy of the next wrapper).
GetEsxiRootPasswordInstallerPair(c, d, env, config_value, typed) ==
    TypedWrapper(c, d, env, "vcf_installer_root_password",
                 "VCF_INSTALLER_ROOT_PASSWORD", config_value, typed)

GetEsxiRootPassword(c, d, env, config_value, typed) ==
    TypedWrapper(c, d, env, "esxi_root_password", "VCF_ESXI_ROOT_PASSWORD",
                 config_value, typed)

GetVcfInstallerRootPassword(c, d, env, config_value, typed) ==
    TypedWrapper(c, d, env, "vcf_installer_root_password",
                 "VCF_INSTALLER_ROOT_PASSWORD", config_value, typed)

GetVcfInstallerAdminPassword(c, d, env, config_value, typed) ==
    TypedWrapper(c, d, env, "vcf_installer_admin_password",
                 "VCF_INSTALLER_ADMIN_PASSWORD", config_value, typed)

GetVcenterPassword(c, d, env, config_value, typed) ==
    TypedWrapper(c, d, env, "vcenter_password", "VCF_VCENTER_PASSWORD",
                 config_value, typed)

(***************************************************************************)
(* load_config_with_secrets                                                *)
(***************************************************************************)
\* Main configuration documents that are mappings of sections. A section is
\* absent, null, or a mapping that holds a field the function does not know
\* and, per credential field, nothing, null, "" or a password.
Absent == [t |-> "absent"]
FieldStates == {Absent, None, Str(""), Str("configpass")}

\* The mapping with the listed fields, without those whose state is Absent.
Fields(f) ==
    Dict([k \in {n \in DOMAIN f : f[n] # Absent} |-> f[k]])

CommonSections ==
    {Absent, None}
    \cup {Fields([gateway |-> Str("10.0.0.1"), root_password |-> p]) :
            p \in FieldStates}

InstallerSections ==
    {Absent, None}
    \cup {Fields([hostname |-> Str("sddcm01"), root_password |-> p,
                  admin_password |-> q]) :
            p \in {Absent, Str(""), Str("configpass")},
            q \in {Absent, Str(""), Str("configpass")}}

VcenterSections ==
    {Absent, None}
    \cup {Fields([hostname |-> Str("vc01"), password |-> p]) :
            p \in {Absent, Str(""), Str("configpass")}}

ConfigMappings ==
    {Fields([network |-> Dict([vlan |-> Int(30)]), common |-> c,
             vcf_installer |-> i, vcenter |-> v]) :
        c \in CommonSections, i \in InstallerSections, v \in VcenterSections}

\* States of the main config file on disk, as for the secrets file. The
\* documents that are no mapping: an empty file, a number, a bare string
\* that is a section name, one that contains none, and a list naming a
\* section.
ConfigFileStates ==
    {[t |-> "absent"], [t |-> "unreadable"], [t |-> "malformed"],
     [t |-> "undecodable"]}
    \cup {[t |-> "doc", doc |-> d] :
            d \in {None, Int(9), Str("common"), Str("notes"),
                   List(<<Str("vcenter")>>)}
                  \cup ConfigMappings}

\* The run of load_config_with_secrets after the SecretsManager has been
\* constructed: the document being filled in, the instance's cache and
\* counters, the prompts answered so far, and whether the run still goes on
\* (kind "run") or an exception has ended it.
RunStart(doc) ==
    [doc |-> doc, kind |-> "run", exc |-> "", cache |-> None, opens |-> 0,
     absentProbes |-> 0, warnings |-> 0, prompts |-> <<>>]

\* `config[section].get(field)`, the argument of the wrapper, where the
\* run reaches it (None where it does not).
PriorOf(st, section, field) ==
    IF /\ st.kind = "run"
       /\ st.doc.t = "dict"
       /\ section \in DOMAIN st.doc.m
       /\ st.doc.m[section].t = "dict"
       /\ field \in DOMAIN st.doc.m[section].m
    THEN st.doc.m[section].m[field]
    ELSE None

\* Variant of the assignment that replaces the whole section by a mapping
\* holding the credential only (`config[section] = {field: ...}`).
ResolveFieldReplacingSection(st, section, field, r, typed) ==
    IF st.kind # "run" THEN st
    ELSE CASE KeyIn(section, st.doc) = "TypeError" ->
                [st EXCEPT !.kind = "raise", !.exc = "TypeError"]
           [] KeyIn(section, st.doc) = "no" -> st
           [] KeyIn(section, st.doc) = "yes" ->
                IF st.doc.t # "dict"
                THEN [st EXCEPT !.kind = "raise", !.exc = "TypeError"]
                ELSE IF st.doc.m[section].t # "dict"
                THEN [st EXCEPT !.kind = "raise", !.exc = "AttributeError"]
                ELSE
                LET n == [st EXCEPT
                            !.cache = r.cache,
                            !.opens = @ + (IF r.opened THEN 1 ELSE 0),
                            !.absentProbes =
                                @ + (IF r.probed /\ ~r.opened THEN 1 ELSE 0),
                            !.warnings = @ + (IF r.warned THEN 1 ELSE 0),
                            !.prompts = IF r.prompted
                                        THEN Append(@, [key |-> r.key,
                                                        typed |-> typed])
                                        ELSE @]
                IN  IF r.kind = "raise"
                    THEN [n EXCEPT !.kind = "raise", !.exc = r.exc]
                    ELSE [n EXCEPT !.doc.m[section] =
                            Dict([k \in {field} |-> r.value])]

\* One assignment `config[section][field] = wrapper(config[section].get(field))`
\* behind its `if section in config:`; r is the outcome of the wrapper call
\* if the run reaches it.
ResolveField(st, section, field, r, typed) ==
    IF st.kind # "run" THEN st
    ELSE CASE KeyIn(section, st.doc) = "TypeError" ->
                [st EXCEPT !.kind = "raise", !.exc = "TypeError"]
           [] KeyIn(section, st.doc) = "no" -> st
           [] KeyIn(section, st.doc) = "yes" ->
                IF st.doc.t # "dict"
                THEN [st EXCEPT !.kind = "raise", !.exc = "TypeError"]
                ELSE IF st.doc.m[section].t # "dict"
                THEN [st EXCEPT !.kind = "raise", !.exc = "AttributeError"]
                ELSE
                LET sec == st.doc.m[section].m
                    n == [st EXCEPT
                            !.cache = r.cache,
                            !.opens = @ + (IF r.opened THEN 1 ELSE 0),
                            !.absentProbes =
                                @ + (IF r.probed /\ ~r.opened THEN 1 ELSE 0),
                            !.warnings = @ + (IF r.warned THEN 1 ELSE 0),
                            !.prompts = IF r.prompted
                                        THEN Append(@, [key |-> r.key,
                                                        typed |-> typed])
                                        ELSE @]
                IN  IF r.kind = "raise"
                    THEN [n EXCEPT !.kind = "raise", !.exc = r.exc]
                    ELSE [n EXCEPT !.doc.m[section] =
                            Dict([k \in DOMAIN sec \cup {field} |->
                                    IF k = field THEN r.value ELSE sec[k]])]

\* The four assignments, in the order of the function body.
ResolveCommon(st, d, env, typed) ==
    ResolveField(st, "common", "root_password",
        GetEsxiRootPassword(st.cache, d, env,
            PriorOf(st, "common", "root_password"), typed),
        typed)

ResolveInstallerRoot(st, d, env, typed) ==
    ResolveField(st, "vcf_installer", "root_password",
        GetVcfInstallerRootPassword(st.cache, d, env,
            PriorOf(st, "vcf_installer", "root_password"), typed),
        typed)

ResolveInstallerAdmin(st, d, env, typed) ==
    ResolveField(st, "vcf_installer", "admin_password",
        GetVcfInstallerAdminPassword(st.cache, d, env,
            PriorOf(st, "vcf_installer", "admin_password"), typed),
        typed)

ResolveVcenter(st, d, env, typed) ==
    ResolveField(st, "vcenter", "password",
        GetVcenterPassword(st.cache, d, env,
            PriorOf(st, "vcenter", "password"), typed),
        typed)

\* Variant of the early failure in which the SecretsManager is built before
\* the config file is looked at.
LoadFailureAfterConstruction(cf) ==
    IF cf.t = "undecodable"
    THEN [kind |-> "raise", exc |-> "UnicodeDecodeError", status |-> 1,
          error |-> FALSE, constructed |-> TRUE, doc |-> None, cache |-> None,
          opens |-> 0, absentProbes |-> 0, warnings |-> 0,
          prompts |-> <<>>]
    ELSE [kind |-> "exit", exc |-> "SystemExit", status |-> 1,
          error |-> TRUE, constructed |-> TRUE, doc |-> None, cache |-> None,
          opens |-> 0, absentProbes |-> 0, warnings |-> 0,
          prompts |-> <<>>]

\* The outcome of load_config_with_secrets that ends before a SecretsManager
\* exists: the ERROR line and sys.exit(1), or the decoding error.
LoadFailure(cf) ==
    IF cf.t = "undecodable"
    THEN [kind |-> "raise", exc |-> "UnicodeDecodeError", status |-> 1,
          error |-> FALSE, constructed |-> FALSE, doc |-> None, cache |-> None,
          opens |-> 0, absentProbes |-> 0, warnings |-> 0,
          prompts |-> <<>>]
    ELSE [kind |-> "exit", exc |-> "SystemExit", status |-> 1,
          error |-> TRUE, constructed |-> FALSE, doc |-> None, cache |-> None,
          opens |-> 0, absentProbes |-> 0, warnings |-> 0,
          prompts |-> <<>>]

\* The outcome of a run that got past the parse: the document is returned
\* if no step raised.
LoadOutcome(st) ==
    [kind |-> IF st.kind = "run" THEN "return" ELSE "raise",
     exc |-> st.exc, status |-> IF st.kind = "run" THEN 0 ELSE 1,
     error |-> FALSE, constructed |-> TRUE,
     doc |-> IF st.kind = "run" THEN st.doc ELSE None,
     cache |-> st.cache, opens |-> st.opens,
     absentProbes |-> st.absentProbes, warnings |-> st.warnings,
     prompts |-> st.prompts]

(***************************************************************************)
(* The observers: has_secrets_file and get_secrets_info                    *)
(***************************************************************************)
\* A Python bool.
Bool(b) == [t |-> "bool", b |-> b]

\* `self.secrets_file` as the f-strings of get_secrets_info print it.
SecretsPath == "config/vcf-secrets.yaml"

\* One line of the report: its leading mark ("ok" for the check mark, "warn"
\* for the warning sign, "" for none), its fixed text and what is
\* interpolated into it.
Line(mark, text, arg) == [mark |-> mark, text |-> text, arg |-> arg]

\* The `env_vars` list of get_secrets_info, in its order.
InfoEnvVars ==
    <<"VCF_ESXI_ROOT_PASSWORD", "VCF_INSTALLER_ROOT_PASSWORD",
      "VCF_INSTALLER_ADMIN_PASSWORD", "VCF_VCENTER_PASSWORD">>

\* Variant of has_secrets_file that answers by loading the file
\* (`return self._load_secrets_file() is not None`).
HasSecretsFileByLoading(c, d) ==
    LET l == LoadSecretsFile(c, d)
    IN  [kind |-> IF l.exc = "" THEN "return" ELSE "raise",
         value |-> IF l.exc = "" THEN Bool(l.ret # None) ELSE None,
         exc |-> l.exc, cache |-> l.cache, probed |-> l.probed,
         opened |-> l.opened, warned |-> l.warned, prompted |-> FALSE]

\* SecretsManager.has_secrets_file on an instance with cache c and the file
\* in state d: `self.secrets_file.exists()`, nothing else.
HasSecretsFile(c, d) ==
    [kind |-> "return", value |-> Bool(d.t # "absent"), exc |-> "",
     cache |-> c, probed |-> TRUE, opened |-> FALSE, warned |-> FALSE,
     prompted |-> FALSE]

\* Variant of the report's loop that prints what a set variable holds
\* (`f"  ✓ {var} = {os.environ.get(var)}"`).
EnvLinesShowingValues(env) ==
    [i \in DOMAIN InfoEnvVars |->
        IF Truthy(EnvGet(env, InfoEnvVars[i]))
        THEN Line("ok", InfoEnvVars[i], EnvGet(env, InfoEnvVars[i]).s)
        ELSE Line("", InfoEnvVars[i], "not set")]

\* The loop over env_vars: one line per variable, "is set" when
\* os.environ.get(var) is truthy and "not set" otherwise.
EnvLines(env) ==
    [i \in DOMAIN InfoEnvVars |->
        IF Truthy(EnvGet(env, InfoEnvVars[i]))
        THEN Line("ok", InfoEnvVars[i], "is set")
        ELSE Line("", InfoEnvVars[i], "not set")]

\* SecretsManager.get_secrets_info: the lines of the report, in order (the
\* method joins them with "\n").
GetSecretsInfo(c, d, env) ==
    LET h == HasSecretsFile(c, d)
        head == <<Line("", "Secrets Priority Order:", ""),
                  Line("", "  1. Environment variables (VCF_*)", ""),
                  Line("", "  2. Secrets file (config/vcf-secrets.yaml)", ""),
                  Line("", "  3. Config file (config/vcf-config.yaml)", ""),
                  Line("", "  4. Interactive prompt", ""),
                  Line("", "", "")>>
        file == IF h.value = Bool(TRUE)
                THEN <<Line("ok", "Secrets file found: ", SecretsPath)>>
                ELSE <<Line("warn", "Secrets file not found: ", SecretsPath),
                       Line("", "  Create from: ",
                            SecretsPath \o ".example")>>
        tail == <<Line("", "", ""), Line("", "Environment variables:", "")>>
    IN  IF h.kind = "raise"
        THEN h
        ELSE [h EXCEPT !.value = [t |-> "lines",
                                  lines |-> head \o file \o tail
                                            \o EnvLines(env)]]

(***************************************************************************)
(* What the operations do to the files on disk                             *)
(***************************************************************************)
\* Variant in which the file is opened for writing (`open(path, 'w')`): the
\* file is created or truncated to an empty document.
OpenForWrite(f) == [t |-> "doc", doc |-> None]

\* The file after `open(path, 'r', encoding='utf-8')` and the read that
\* follows: as it was. Both files are opened in this mode only, and no
\* operation writes, renames or removes a file.
OpenForRead(f) == f

(***************************************************************************)
(* State                                                                   *)
(***************************************************************************)
VARIABLES
    environ,        \* os.environ restricted to the four VCF_* variables
    secrets_file,   \* config/vcf-secrets.yaml on disk (a SecretsFileStates)
    secrets_cache,  \* SecretsManager._secrets_cache
    opens,          \* how many times the instance has called open() on it
    absentProbes,   \* how many times exists() told the instance "no file"
    last,           \* the operation that ran last, its arguments and outcome
    config_file,    \* config/vcf-config.yaml on disk (a ConfigFileStates)
    loaded,         \* the outcome of load_config_with_secrets
    deploy_in,      \* deploy_vcf_installer.py: the resolved passwords
    deploy_out,     \* deploy_vcf_installer.py: what deploy() printed and ran
    power_in,       \* vcf_management_power.py: args and tier configuration
    power_vms,      \* vCenter inventory: the power state of each VM
    power_run,      \* where main() and the tier loop are, and the exit status
    power_calls,    \* the power calls issued to VMs, in order
    delete_in,      \* delete_all_vms.py: args (dry_run, exclude)
    delete_vms,     \* per ESXi host, the VMs registered on it
    delete_run,     \* where main() and the host loop are, and the results
    delete_calls    \* the PowerOff and Destroy calls issued, in order

\* The state of the secrets layer and the state of the scripts built on it.
secretsVars == <<environ, secrets_file, secrets_cache, opens, absentProbes,
                 last, config_file, loaded>>
deployVars == <<deploy_in, deploy_out>>
powerVars == <<power_in, power_vms, power_run, power_calls>>
deleteVars == <<delete_in, delete_vms, delete_run, delete_calls>>
scriptVars == <<deployVars, powerVars, deleteVars>>

vars == <<secretsVars, scriptVars>>

\* deploy() has not been called.
NotDeployed == [kind |-> "none", display_cmd |-> <<>>, cmd |-> <<>>]

\* No script has been started: the state of the scripts in a process that
\* only uses the secrets layer.
DeployIdle ==
    /\ deploy_in = [t |-> "none"]
    /\ deploy_out = NotDeployed

PowerIdle ==
    /\ power_in = [t |-> "none"]
    /\ power_vms = <<>>
    /\ power_run = [pc |-> "idle"]
    /\ power_calls = <<>>

DeleteIdle ==
    /\ delete_in = [t |-> "none"]
    /\ delete_vms = <<>>
    /\ delete_run = [pc |-> "idle"]
    /\ delete_calls = <<>>

ScriptsIdle == DeployIdle /\ PowerIdle /\ DeleteIdle

\* The operations that resolve a secret.
LookupOps == {"get_secret", "get_esxi_root_password",
              "get_vcf_installer_root_password",
              "get_vcf_installer_admin_password", "get_vcenter_password"}

\* No operation has run yet.
NoCall ==
    [op |-> "none", key |-> "", config_value |-> None, env_var |-> None,
     required |-> FALSE, kind |-> "return", value |-> None, exc |-> "",
     typed |-> None, probed |-> FALSE, opened |-> FALSE, warned |-> FALSE,
     prompted |-> FALSE]

\* The record of a lookup: its arguments and the outcome r. What was typed
\* is kept only when the prompt was reached.
CallRecord(op, key, config_value, env_var, required, typed, r) ==
    [op |-> op, key |-> key, config_value |-> config_value,
     env_var |-> env_var, required |-> required,
     kind |-> r.kind, value |-> r.value, exc |-> r.exc,
     typed |-> IF r.prompted THEN typed ELSE None,
     probed |-> r.probed, opened |-> r.opened, warned |-> r.warned,
     prompted |-> r.prompted]

\* load_config_with_secrets has not been called.
NotLoaded ==
    [kind |-> "none", exc |-> "", status |-> 0, error |-> FALSE,
     constructed |-> FALSE, doc |-> None, cache |-> None, opens |-> 0,
     absentProbes |-> 0, warnings |-> 0, prompts |-> <<>>]

\* SecretsManager.__init__ in a process with some environment and some
\* secrets file on disk.
Init ==
    /\ environ \in Environments
    /\ secrets_file \in SecretsFileStates
    /\ secrets_cache = None
    /\ opens = 0
    /\ absentProbes = 0
    /\ last = NoCall
    /\ config_file = [t |-> "absent"]
    /\ loaded = NotLoaded
    /\ ScriptsIdle

\* What the operator may enter: drawn only when the call reaches the prompt.
TypedInputs(prompts) == IF prompts THEN Typed ELSE {Str("")}

\* The effect of a lookup with outcome r on the instance.
Apply(rec, r) ==
    /\ opens + (IF r.opened THEN 1 ELSE 0) <= MaxOpens
    /\ absentProbes + (IF r.probed /\ ~r.opened THEN 1 ELSE 0) <= MaxProbes
    /\ secrets_cache' = r.cache
    /\ opens' = opens + (IF r.opened THEN 1 ELSE 0)
    /\ absentProbes' = absentProbes + (IF r.probed /\ ~r.opened THEN 1 ELSE 0)
    /\ last' = rec
    /\ secrets_file' = IF r.opened THEN OpenForRead(secrets_file)
                                   ELSE secrets_file
    /\ UNCHANGED <<environ, config_file, loaded>>
    /\ UNCHANGED scriptVars

GetSecretCall ==
    \E key \in CallKeys, config_value \in ConfigValues,
       env_var \in EnvVarArgs, required \in BOOLEAN :
      \E typed \in TypedInputs(GetSecret(secrets_cache, secrets_file, environ,
                        key, config_value, env_var, required, EOF).prompted) :
        LET r == GetSecret(secrets_cache, secrets_file, environ, key,
                           config_value, env_var, required, typed)
        IN  Apply(CallRecord("get_secret", key, config_value, env_var,
                             required, typed, r), r)

GetEsxiRootPasswordCall ==
    \E config_value \in ConfigValues :
      \E typed \in TypedInputs(GetEsxiRootPassword(secrets_cache, secrets_file,
                        environ, config_value, EOF).prompted) :
        LET r == GetEsxiRootPassword(secrets_cache, secrets_file, environ,
                                     config_value, typed)
        IN  Apply(CallRecord("get_esxi_root_password", "esxi_root_password",
                             config_value, Str("VCF_ESXI_ROOT_PASSWORD"),
                             TRUE, typed, r), r)

GetVcfInstallerRootPasswordCall ==
    \E config_value \in ConfigValues :
      \E typed \in TypedInputs(GetVcfInstallerRootPassword(secrets_cache, secrets_file,
                        environ, config_value, EOF).prompted) :
        LET r == GetVcfInstallerRootPassword(secrets_cache, secrets_file,
                                             environ, config_value, typed)
        IN  Apply(CallRecord("get_vcf_installer_root_password",
                             "vcf_installer_root_password", config_value,
                             Str("VCF_INSTALLER_ROOT_PASSWORD"),
                             TRUE, typed, r), r)

GetVcfInstallerAdminPasswordCall ==
    \E config_value \in ConfigValues :
      \E typed \in TypedInputs(GetVcfInstallerAdminPassword(secrets_cache, secrets_file,
                        environ, config_value, EOF).prompted) :
        LET r == GetVcfInstallerAdminPassword(secrets_cache, secrets_file,
                                              environ, config_value, typed)
        IN  Apply(CallRecord("get_vcf_installer_admin_password",
                             "vcf_installer_admin_password", config_value,
                             Str("VCF_INSTALLER_ADMIN_PASSWORD"),
                             TRUE, typed, r), r)

GetVcenterPasswordCall ==
    \E config_value \in ConfigValues :
      \E typed \in TypedInputs(GetVcenterPassword(secrets_cache, secrets_file,
                        environ, config_value, EOF).prompted) :
        LET r == GetVcenterPassword(secrets_cache, secrets_file, environ,
                                    config_value, typed)
        IN  Apply(CallRecord("get_vcenter_password", "vcenter_password",
                             config_value, Str("VCF_VCENTER_PASSWORD"),
                             TRUE, typed, r), r)

\* The operations that only report on the sources.
ObserverOps == {"has_secrets_file", "get_secrets_info"}

\* The effect of an observer with outcome r on the instance: what it did to
\* the cache and whether it opened the file.
Observe(op, r) ==
    /\ opens + (IF r.opened THEN 1 ELSE 0) <= MaxOpens
    /\ secrets_cache' = r.cache
    /\ opens' = opens + (IF r.opened THEN 1 ELSE 0)
    /\ last' = CallRecord(op, "", None, None, FALSE, None, r)
    /\ secrets_file' = IF r.opened THEN OpenForRead(secrets_file)
                                   ELSE secrets_file
    /\ UNCHANGED <<environ, absentProbes, config_file, loaded>>
    /\ UNCHANGED scriptVars

HasSecretsFileCall ==
    Observe("has_secrets_file", HasSecretsFile(secrets_cache, secrets_file))

GetSecretsInfoCall ==
    Observe("get_secrets_info",
            GetSecretsInfo(secrets_cache, secrets_file, environ))

Next ==
    \/ GetSecretCall
    \/ GetEsxiRootPasswordCall
    \/ GetVcfInstallerRootPasswordCall
    \/ GetVcfInstallerAdminPasswordCall
    \/ GetVcenterPasswordCall
    \/ HasSecretsFileCall
    \/ GetSecretsInfoCall

\* One SecretsManager instance used for a sequence of lookups and reports,
\* in a process whose environment and secrets file stay as they were at
\* construction.
Spec == Init /\ [][Next]_vars

(***************************************************************************)
(* A process that calls load_config_with_secrets                           *)
(***************************************************************************)
\* Environments and secrets files a load starts with: every secrets file
\* under an environment that sets nothing, and every environment with no
\* secrets file or with the one that holds all four keys.
LoadSources ==
    {src \in Environments \X SecretsFileStates :
        \/ \A v \in EnvVars : src[1][v] = None
        \/ src[2] = [t |-> "absent"]
        \/ src[2] = [t |-> "doc", doc |-> Dict([k \in Keys |-> Str("filepass")])]}

InitLoad ==
    /\ \E src \in LoadSources : environ = src[1] /\ secrets_file = src[2]
    /\ config_file \in ConfigFileStates
    /\ secrets_cache = None
    /\ opens = 0
    /\ absentProbes = 0
    /\ last = NoCall
    /\ loaded = NotLoaded
    /\ ScriptsIdle

\* The step from st to st2 asked the operator for a password.
Asked(st, st2) == Len(st2.prompts) > Len(st.prompts)

\* The call has ended with outcome o; the instance it built ends with o's
\* cache and counters.
Finish(o) ==
    /\ loaded' = o
    /\ secrets_cache' = o.cache
    /\ opens' = o.opens
    /\ absentProbes' = o.absentProbes
    /\ config_file' = IF config_file.t = "absent" THEN config_file
                                                  ELSE OpenForRead(config_file)
    /\ secrets_file' = IF o.opens > 0 THEN OpenForRead(secrets_file)
                                      ELSE secrets_file
    /\ UNCHANGED <<environ, last>>
    /\ UNCHANGED scriptVars

\* A typed line is drawn for a step only if the step asks for one.
Drawn(st, st2, typed) == Asked(st, st2) \/ typed = EOF

LoadConfig ==
    /\ loaded.kind = "none"
    /\ IF config_file.t # "doc"
       THEN Finish(LoadFailure(config_file))
       ELSE
       LET d == secrets_file
           e == environ
           s0 == RunStart(config_file.doc)
       IN
       \E t1 \in Typed :
       LET s1 == ResolveCommon(s0, d, e, t1) IN
       /\ Drawn(s0, s1, t1)
       /\ \E t2 \in Typed :
          LET s2 == ResolveInstallerRoot(s1, d, e, t2) IN
          /\ Drawn(s1, s2, t2)
          /\ \E t3 \in Typed :
             LET s3 == ResolveInstallerAdmin(s2, d, e, t3) IN
             /\ Drawn(s2, s3, t3)
             /\ \E t4 \in Typed :
                LET s4 == ResolveVcenter(s3, d, e, t4) IN
                /\ Drawn(s3, s4, t4)
                /\ Finish(LoadOutcome(s4))

NextLoad == LoadConfig

SpecLoad == InitLoad /\ [][NextLoad]_vars

(***************************************************************************)
(* One instance while the secrets file changes on disk                     *)
(***************************************************************************)
\* What the file at config/vcf-secrets.yaml can be replaced by between two
\* calls: removed, broken, emptied, or written with one of three mappings.
ChangedFileStates ==
    {[t |-> "absent"], [t |-> "malformed"], [t |-> "doc", doc |-> None],
     [t |-> "doc", doc |-> Dict([k \in Keys |-> Str("filepass")])],
     [t |-> "doc",
      doc |-> Dict([k \in {"esxi_root_password"} |-> Str("")])],
     [t |-> "doc",
      doc |-> Dict([k \in {"vcenter_password"} |-> Str("filepass")])]}

\* A fresh instance in a process without VCF_* variables.
InitFS ==
    /\ environ = [v \in EnvVars |-> None]
    /\ secrets_file \in ChangedFileStates
    /\ secrets_cache = None
    /\ opens = 0
    /\ absentProbes = 0
    /\ last = NoCall
    /\ config_file = [t |-> "absent"]
    /\ loaded = NotLoaded
    /\ ScriptsIdle

\* Somebody else (the operator, another process) replaces the file between
\* two operations of the instance; the instance is not told.
SecretsFileChanges ==
    /\ \E f \in ChangedFileStates :
            /\ f # secrets_file
            /\ secrets_file' = f
    /\ UNCHANGED <<environ, secrets_cache, opens, absentProbes, last,
                   config_file, loaded>>
    /\ UNCHANGED scriptVars

NextFS ==
    \/ Next
    \/ SecretsFileChanges

SpecFS == InitFS /\ [][NextFS]_vars

(***************************************************************************)
(* deploy_vcf_installer.py: the ovftool command and its dry-run display    *)
(*                                                                         *)
(* A Python string is a sequence of tokens. The marks the masking code     *)
(* looks for ("PASSWORD", "root_password", "=", "@") are tokens of their   *)
(* own wherever they occur, so `x in s` for a mark x is membership and     *)
(* s.split and s.replace work on whole tokens.                             *)
(***************************************************************************)
\* `needle in arg` for a one-token needle.
Has(arg, needle) == \E i \in DOMAIN arg : arg[i] = needle

\* The place of the first "=" of an argument that has one.
FirstEq(arg) ==
    CHOOSE i \in DOMAIN arg :
        /\ arg[i] = "="
        /\ \A j \in 1..(i - 1) : arg[j] # "="

\* `key, _ = arg.split("=", 1)`: what precedes the first "=".
SplitKey(arg) == SubSeq(arg, 1, FirstEq(arg) - 1)

\* `s.replace(pat, rep)` for a non-empty pat: every occurrence, left to
\* right, without overlap.
RECURSIVE Replace(_, _, _)
Replace(str, pat, rep) ==
    IF Len(str) < Len(pat)
    THEN str
    ELSE IF SubSeq(str, 1, Len(pat)) = pat
    THEN rep \o Replace(SubSeq(str, Len(pat) + 1, Len(str)), pat, rep)
    ELSE <<Head(str)>> \o Replace(Tail(str), pat, rep)

\* The text the display puts in place of a password.
Masked == <<"********">>

\* Passwords a resolved config can hold: an ordinary one, one that spells
\* PASSWORD, one with an "=" and one with an "@".
DeployPasswords ==
    {<<"VMware1!">>, <<"my", "PASSWORD", "1">>, <<"pa", "=", "ss">>,
     <<"pa", "@", "ss">>}

\* The passwords of a config that passed load_config_with_secrets and
\* validate_config_keys; every other value of the config is fixed.
DeployConfigs ==
    [t : {"config"}, common_root_password : DeployPasswords,
     root_password : DeployPasswords, admin_password : DeployPasswords]

\* VCFInstallerDeployer.build_ovftool_command: the argument list.
BuildOvftoolCommand(cfg) ==
    << <<"/usr/bin/ovftool">>,
       <<"--acceptAllEulas">>,
       <<"--noSSLVerify">>,
       <<"--skipManifestCheck">>,
       <<"--X:injectOvfEnv">>,
       <<"--allowExtraConfig">>,
       <<"--X:waitForIp">>,
       <<"--sourceType", "=", "OVA">>,
       <<"--powerOn">>,
       <<"--net:Network 1", "=", "VM Network">>,
       <<"--datastore", "=", "local-vmfs-datastore-1">>,
       <<"--diskMode", "=", "thin">>,
       <<"--name", "=", "sddcm01">>,
       <<"--prop:vami.hostname", "=", "sddcm01.vcf.lab">>,
       <<"--prop:vami.ip0.SDDC-Manager", "=", "172.30.0.21">>,
       <<"--prop:vami.netmask0.SDDC-Manager", "=", "255.255.255.0">>,
       <<"--prop:vami.gateway.SDDC-Manager", "=", "172.30.0.1">>,
       <<"--prop:vami.domain.SDDC-Manager", "=", "vcf.lab">>,
       <<"--prop:vami.searchpath.SDDC-Manager", "=", "vcf.lab">>,
       <<"--prop:vami.DNS.SDDC-Manager", "=", "172.30.0.2">>,
       <<"--prop:ROOT_", "PASSWORD", "=">> \o cfg.root_password,
       <<"--prop:LOCAL_USER_", "PASSWORD", "=">> \o cfg.admin_password,
       <<"--prop:guestinfo.ntp", "=", "pool.ntp.org">>,
       <<"/isos/VCF-SDDC-Manager-Appliance.ova">>,
       <<"vi://root:">> \o cfg.common_root_password
            \o <<"@", "172.30.0.11", "/">> >>

\* The body of the loop that builds display_cmd: an argument that spells
\* "root_password" or "PASSWORD" is cut at its first "=" or, failing that,
\* has common.root_password replaced if it holds an "@"; every other
\* argument is displayed as it is.
MaskArg(arg, common_root_password) ==
    IF Has(arg, "root_password") \/ Has(arg, "PASSWORD")
    THEN IF Has(arg, "=")
         THEN SplitKey(arg) \o <<"=">> \o Masked
         ELSE IF Has(arg, "@")
         THEN Replace(arg, common_root_password, Masked)
         ELSE arg
    ELSE arg

\* display_cmd for a command.
DisplayCommand(cmd, common_root_password) ==
    [i \in DOMAIN cmd |-> MaskArg(cmd[i], common_root_password)]

\* VCFInstallerDeployer.deploy: False when a prerequisite is missing; in
\* dry-run mode the masked command is printed and nothing runs; otherwise
\* ovftool runs with the command and its exit decides the result.
Deploy(cfg, dry_run, prerequisites, ovftool_ok) ==
    LET cmd == BuildOvftoolCommand(cfg)
    IN  IF ~prerequisites
        THEN [kind |-> "invalid", display_cmd |-> <<>>, cmd |-> <<>>]
        ELSE IF dry_run
        THEN [kind |-> "dry_run",
              display_cmd |-> DisplayCommand(cmd, cfg.common_root_password),
              cmd |-> <<>>]
        ELSE [kind |-> IF ovftool_ok THEN "deployed" ELSE "failed",
              display_cmd |-> <<>>, cmd |-> cmd]

\* The secrets layer of a process that is past it: nothing of it changes
\* while a script works with the resolved config.
SecretsIdle ==
    /\ environ = [v \in EnvVars |-> None]
    /\ secrets_file = [t |-> "absent"]
    /\ secrets_cache = None
    /\ opens = 0
    /\ absentProbes = 0
    /\ last = NoCall
    /\ config_file = [t |-> "absent"]
    /\ loaded = NotLoaded

\* main() of deploy_vcf_installer.py after the config was loaded and
\* validated.
InitDeploy ==
    /\ SecretsIdle
    /\ deploy_in \in DeployConfigs
    /\ deploy_out = NotDeployed
    /\ PowerIdle
    /\ DeleteIdle

\* deployer.deploy(dry_run=args.dry_run)
DeployCall ==
    /\ deploy_out.kind = "none"
    /\ \E dry_run \in BOOLEAN, prerequisites \in BOOLEAN,
          ovftool_ok \in BOOLEAN :
            deploy_out' = Deploy(deploy_in, dry_run, prerequisites,
                                 ovftool_ok)
    /\ UNCHANGED <<secretsVars, deploy_in, powerVars, deleteVars>>

NextDeploy == DeployCall

SpecDeploy == InitDeploy /\ [][NextDeploy]_vars

(***************************************************************************)
(* vcf_management_power.py: power-down and power-up of the tiers           *)
(***************************************************************************)
\* `for i in range(60)`: the status polls after ShutdownGuest.
PollLimit == 60

\* The tiers of config/vcf-management-tiers.yaml and their VMs, in the order
\* of the file. No VM is listed in two tiers.
Tiers == {"tier1", "tier2", "tier3"}

TierVMs(tier) ==
    CASE tier = "tier1" -> <<"vc01">>
      [] tier = "tier2" -> <<"opsfm01">>
      [] tier = "tier3" -> <<"opslogs01", "opsnet01">>

ManagementVMs == {"vc01", "opsfm01", "opslogs01", "opsnet01"}

\* The tier that lists the VM.
TierOf(vm) == CHOOSE t \in Tiers : \E i \in DOMAIN TierVMs(t) : TierVMs(t)[i] = vm

\* What get_vm_status reports as power_state.
VMStatuses == {"NOT_FOUND", "poweredOn", "poweredOff", "suspended"}

\* Inventories the run can start from.
Inventories ==
    {inv \in [ManagementVMs -> VMStatuses] :
        /\ inv["vc01"] = "poweredOn"
        /\ inv["opsfm01"] \in {"poweredOn", "poweredOff"}
        /\ inv["opsnet01"] \in {"poweredOn", "suspended"}}

\* power_management of the tiers: tier1 is critical, the others may be.
PowerManagementFlags ==
    {pm \in [Tiers -> BOOLEAN] : ~pm["tier1"]}

\* The command line: command, tier and --dry-run, with the tier flags.
PowerArgs ==
    [t : {"args"}, command : {"power-down", "power-up"},
     tier : {"tier1", "tier2", "tier3", "all"}, dry_run : BOOLEAN,
     power_management : PowerManagementFlags]

\* What the operator may answer to a confirmation prompt.
Responses == {"yes", "YES", "y", "no", ""}

\* str.lower() on the answers.
Lower(response) == IF response = "YES" THEN "yes" ELSE response

\* `response.lower() != "yes"` is False.
Confirmed(response) == Lower(response) = "yes"

\* Variant of main() that uses the startup order for both commands.
TierQueueStartupOrder(command, tier) ==
    IF tier = "all" THEN <<"tier2", "tier3">> ELSE <<tier>>

\* main(): the power_*_tier calls of a command, in order. "all" is tier3
\* then tier2 for power-down and tier2 then tier3 for power-up.
TierQueue(command, tier) ==
    IF tier = "all"
    THEN IF command = "power-down" THEN <<"tier3", "tier2">>
                                   ELSE <<"tier2", "tier3">>
    ELSE <<tier>>

\* Variant of the loop body of power_down_tier without the dry-run test.
DownDecisionWithoutDryRun(status, dry_run) ==
    IF status \in {"NOT_FOUND", "poweredOff"} THEN "skip" ELSE "shutdown"

\* The loop body of power_down_tier up to the first call: a VM that is not
\* found or is powered off is skipped, in dry-run mode the line is printed
\* and the loop continues, otherwise the VM is shut down.
DownDecision(status, dry_run) ==
    IF status \in {"NOT_FOUND", "poweredOff"} THEN "skip"
    ELSE IF dry_run THEN "dry_run"
    ELSE "shutdown"

\* The loop body of power_up_tier up to the first call.
UpDecision(status, dry_run) ==
    IF status \in {"NOT_FOUND", "poweredOn"} THEN "skip"
    ELSE IF dry_run THEN "dry_run"
    ELSE "power_on"

\* Variant of the poll loop that does not look at the last poll before it
\* gives up.
AfterPollSkippingLast(polls, observed) ==
    IF observed = "raise" THEN "force"
    ELSE IF polls >= PollLimit THEN "timeout"
    ELSE IF observed = "poweredOff" THEN "next"
    ELSE "polling"

\* One iteration of the poll loop, polls being the number of polls made with
\* this one: get_vm_status raising leaves the try block for the except
\* clause; poweredOff breaks; otherwise the loop goes on until range(60) is
\* used up, which runs the else clause.
AfterPoll(polls, observed) ==
    IF observed = "raise" THEN "force"
    ELSE IF observed = "poweredOff" THEN "next"
    ELSE IF polls < PollLimit THEN "polling"
    ELSE "timeout"

\* main() is about to dispatch the command.
PowerStartState ==
    [pc |-> "main", queue |-> <<>>, tier |-> "", idx |-> 0, polls |-> 0,
     seenOff |-> FALSE, response |-> "", visited |-> <<>>, exit |-> 0]

InitPower ==
    /\ SecretsIdle
    /\ DeployIdle
    /\ DeleteIdle
    /\ power_in \in PowerArgs
    /\ power_vms \in Inventories
    /\ power_run = PowerStartState
    /\ power_calls = <<>>

\* The VM the tier loop is at.
CurrentVM == TierVMs(power_run.tier)[power_run.idx]

\* The loop goes on to the next VM of the tier.
NextVM(run) ==
    [run EXCEPT !.pc = "vm", !.idx = @ + 1, !.polls = 0, !.seenOff = FALSE]

\* main() ends (sys.exit or return) with the status.
Exit(run, status) == [run EXCEPT !.pc = "done", !.exit = status]

\* main() from connect_vcenter to the first power_*_tier call: a failed
\* connection ends in `except Exception` with status 1; power-down all asks
\* for confirmation and exits with 0 unless the answer is yes.
PowerMain ==
    /\ power_run.pc = "main"
    /\ \E connected \in BOOLEAN, response \in Responses :
        power_run' =
            IF ~connected THEN Exit(power_run, 1)
            ELSE IF power_in.command = "power-down" /\ power_in.tier = "all"
            THEN IF ~Confirmed(response)
                 THEN Exit([power_run EXCEPT !.response = response], 0)
                 ELSE [power_run EXCEPT
                        !.pc = "tiers", !.response = response,
                        !.queue = TierQueue(power_in.command, power_in.tier)]
            ELSE [power_run EXCEPT
                    !.pc = "tiers",
                    !.queue = TierQueue(power_in.command, power_in.tier)]
    /\ UNCHANGED <<power_in, power_vms, power_calls>>
    /\ UNCHANGED <<secretsVars, deployVars, deleteVars>>

\* The head of power_down_tier / power_up_tier: power-down of a tier without
\* power_management asks again and returns unless the answer is yes. After
\* the last tier main() ends with status 0.
EnterTier ==
    /\ power_run.pc = "tiers"
    /\ IF power_run.queue = <<>>
       THEN power_run' = Exit(power_run, 0)
       ELSE LET t == Head(power_run.queue)
                enter == [power_run EXCEPT !.pc = "vm", !.tier = t, !.idx = 1,
                                           !.queue = Tail(@)]
                abort == [power_run EXCEPT !.queue = Tail(@)]
            IN  IF power_in.command = "power-down"
                    /\ ~power_in.power_management[t]
                THEN \E response \in Responses :
                        power_run' = IF Confirmed(response) THEN enter
                                                            ELSE abort
                ELSE power_run' = enter
    /\ UNCHANGED <<power_in, power_vms, power_calls>>
    /\ UNCHANGED <<secretsVars, deployVars, deleteVars>>

\* The tier loop is past its last VM: power_*_tier returns.
LeaveTier ==
    /\ power_run.pc = "vm"
    /\ power_run.idx > Len(TierVMs(power_run.tier))
    /\ power_run' = [power_run EXCEPT !.pc = "tiers"]
    /\ UNCHANGED <<power_in, power_vms, power_calls>>
    /\ UNCHANGED <<secretsVars, deployVars, deleteVars>>

\* One VM of power_down_tier up to ShutdownGuest. get_vm_status or
\* _get_vm_by_name raising ends main() with status 1; a VM that is to be
\* shut down and is still found gets ShutdownGuest, which succeeds (the polls
\* follow) or raises (the except clause follows).
PowerDownVM ==
    /\ power_run.pc = "vm"
    /\ power_in.command = "power-down"
    /\ power_run.idx <= Len(TierVMs(power_run.tier))
    /\ \E status_ok \in BOOLEAN, lookup \in {"found", "gone", "raised"},
          shutdown \in {"ok", "raised"} :
        LET seen == [power_run EXCEPT !.visited = Append(@, CurrentVM)]
            d == DownDecision(power_vms[CurrentVM], power_in.dry_run)
        IN  IF ~status_ok \/ (d = "shutdown" /\ lookup = "raised")
            THEN /\ power_run' = Exit(power_run, 1)
                 /\ UNCHANGED power_calls
            ELSE IF d = "shutdown" /\ lookup = "found"
            THEN /\ power_calls' = Append(power_calls,
                        [vm |-> CurrentVM, op |-> "ShutdownGuest",
                         result |-> shutdown])
                 /\ power_run' = [seen EXCEPT
                        !.pc = IF shutdown = "ok" THEN "polling" ELSE "force"]
            ELSE /\ power_run' = NextVM(seen)
                 /\ UNCHANGED power_calls
    /\ UNCHANGED <<power_in, power_vms>>
    /\ UNCHANGED <<secretsVars, deployVars, deleteVars>>

\* One iteration of the poll loop: sleep, get_vm_status, test.
Poll ==
    /\ power_run.pc = "polling"
    /\ \E observed \in {"poweredOn", "poweredOff", "raise"} :
        LET n == power_run.polls + 1
            a == AfterPoll(n, observed)
            run == [power_run EXCEPT
                        !.polls = n,
                        !.seenOff = @ \/ observed = "poweredOff"]
        IN  /\ power_run' = CASE a = "next" -> NextVM(run)
                              [] a = "polling" -> run
                              [] a = "timeout" -> [run EXCEPT !.pc = "timeout"]
                              [] a = "force" -> [run EXCEPT !.pc = "force"]
            /\ power_vms' = IF observed = "poweredOff"
                            THEN [power_vms EXCEPT ![CurrentVM] = "poweredOff"]
                            ELSE power_vms
    /\ UNCHANGED <<power_in, power_calls>>
    /\ UNCHANGED <<secretsVars, deployVars, deleteVars>>

\* The else clause of the poll loop: PowerOff and _wait_for_task. If either
\* raises, the except clause of the same try block follows.
TimeoutPowerOff ==
    /\ power_run.pc = "timeout"
    /\ \E result \in {"success", "error"} :
        /\ power_calls' = Append(power_calls,
                [vm |-> CurrentVM, op |-> "PowerOff", result |-> result])
        /\ power_run' = IF result = "success" THEN NextVM(power_run)
                        ELSE [power_run EXCEPT !.pc = "force"]
        /\ power_vms' = IF result = "success"
                        THEN [power_vms EXCEPT ![CurrentVM] = "poweredOff"]
                        ELSE power_vms
    /\ UNCHANGED power_in
    /\ UNCHANGED <<secretsVars, deployVars, deleteVars>>

\* The except clause: PowerOff and _wait_for_task in a try of their own;
\* the loop goes on whether or not they succeed.
ForcePowerOff ==
    /\ power_run.pc = "force"
    /\ \E result \in {"success", "error"} :
        /\ power_calls' = Append(power_calls,
                [vm |-> CurrentVM, op |-> "PowerOff", result |-> result])
        /\ power_vms' = IF result = "success"
                        THEN [power_vms EXCEPT ![CurrentVM] = "poweredOff"]
                        ELSE power_vms
    /\ power_run' = NextVM(power_run)
    /\ UNCHANGED power_in
    /\ UNCHANGED <<secretsVars, deployVars, deleteVars>>

\* One VM of power_up_tier: PowerOn, _wait_for_task and the wait for the
\* tools, all inside one try, after which the loop goes on.
PowerUpVM ==
    /\ power_run.pc = "vm"
    /\ power_in.command = "power-up"
    /\ power_run.idx <= Len(TierVMs(power_run.tier))
    /\ \E status_ok \in BOOLEAN, lookup \in {"found", "gone", "raised"},
          result \in {"success", "error"} :
        LET seen == [power_run EXCEPT !.visited = Append(@, CurrentVM)]
            d == UpDecision(power_vms[CurrentVM], power_in.dry_run)
        IN  IF ~status_ok \/ (d = "power_on" /\ lookup = "raised")
            THEN /\ power_run' = Exit(power_run, 1)
                 /\ UNCHANGED <<power_calls, power_vms>>
            ELSE IF d = "power_on" /\ lookup = "found"
            THEN /\ power_calls' = Append(power_calls,
                        [vm |-> CurrentVM, op |-> "PowerOn",
                         result |-> result])
                 /\ power_vms' = IF result = "success"
                        THEN [power_vms EXCEPT ![CurrentVM] = "poweredOn"]
                        ELSE power_vms
                 /\ power_run' = NextVM(seen)
            ELSE /\ power_run' = NextVM(seen)
                 /\ UNCHANGED <<power_calls, power_vms>>
    /\ UNCHANGED power_in
    /\ UNCHANGED <<secretsVars, deployVars, deleteVars>>

NextPower ==
    \/ PowerMain
    \/ EnterTier
    \/ LeaveTier
    \/ PowerDownVM
    \/ Poll
    \/ TimeoutPowerOff
    \/ ForcePowerOff
    \/ PowerUpVM

SpecPower == InitPower /\ [][NextPower]_vars

\* The poll loop sleeps five seconds per iteration and _wait_for_task gives
\* up after its timeout, so a VM that is being handled is not left waiting
\* for ever.
SpecPowerFair ==
    /\ SpecPower
    /\ WF_vars(Poll)
    /\ WF_vars(TimeoutPowerOff)
    /\ WF_vars(ForcePowerOff)

(***************************************************************************)
(* delete_all_vms.py: deletion of the VMs of every host                    *)
(***************************************************************************)
\* config['hosts'] has two hosts.
DeleteHosts == {1, 2}

\* The VMs the container view of a host lists, in its order.
HostInventories ==
    {<< <<[name |-> "vc01", power |-> p1], [name |-> "test-vm", power |-> p2]>>,
        <<[name |-> "sddcm01", power |-> p3]>> >> :
        p1 \in {"poweredOn"}, p2 \in {"poweredOn", "poweredOff"},
        p3 \in {"poweredOn", "suspended"}}

\* args.exclude.split(','): the items between the commas.
ExcludeArgs ==
    {<<"">>, <<"vc01">>, <<" vc01 ", "test-vm">>, <<"sddcm01", "">>}

\* str.strip() on the items.
Strip(item) == IF item = " vc01 " THEN "vc01" ELSE item

\* `[vm.strip() for vm in args.exclude.split(',') if vm.strip()]`
ParseExclude(items) ==
    {Strip(items[i]) : i \in {j \in DOMAIN items : Strip(items[j]) # ""}}

\* The command line: --dry-run and --exclude.
DeleteArgs == [t : {"args"}, dry_run : BOOLEAN, exclude : ExcludeArgs]

\* Variant of main() that goes on unless the answer is no.
ProceedsUnlessNo(dry_run, response) ==
    dry_run \/ Lower(response) # "no"

\* main(): the host loop is reached in dry-run mode, where nothing is asked,
\* or when the answer to the prompt is yes in any case of letters.
Proceeds(dry_run, response) ==
    dry_run \/ Lower(response) = "yes"

\* The positions in the host's view of the VMs whose name is not in
\* exclude_vms, in the order of the view.
VmsToDelete(vms, exclude_vms) ==
    SelectSeq([i \in DOMAIN vms |-> i],
              LAMBDA i : vms[i].name \notin exclude_vms)

\* Variant of the loop body that deletes whatever PowerOff did.
AfterPowerOffIgnoringFailure(result) == "destroy"

\* After PowerOff: a task that ends in error, or an exception, sets success
\* to False and continues with the next VM; otherwise the VM is deleted.
AfterPowerOff(result) ==
    IF result \in {"error", "raised"} THEN "continue" ELSE "destroy"

\* `return 0 if all_success else 1`
ExitStatus(results) ==
    IF \A i \in DOMAIN results : results[i] THEN 0 ELSE 1

\* main() has parsed its arguments.
DeleteStartState ==
    [pc |-> "main", host |-> 0, queue |-> <<>>, success |-> TRUE,
     results |-> <<>>, response |-> "", visited |-> <<>>, exit |-> 0]

InitDelete ==
    /\ SecretsIdle
    /\ DeployIdle
    /\ PowerIdle
    /\ delete_in \in DeleteArgs
    /\ delete_vms \in HostInventories
    /\ delete_run = DeleteStartState
    /\ delete_calls = <<>>

\* The VM the loop of delete_vms_on_host is at.
DeleteVM == delete_vms[delete_run.host][Head(delete_run.queue)]

\* A call issued to the VM the loop is at.
DeleteCall(op, result) ==
    [host |-> delete_run.host, vm |-> DeleteVM.name, op |-> op,
     result |-> result]

\* main() ends with the status; an exception nobody catches ends it with 1.
DeleteExit(run, status) == [run EXCEPT !.pc = "done", !.exit = status]

\* main() up to the host loop: load_config failing returns 1; without
\* --dry-run the operator is asked and anything but yes returns 0.
DeleteMain ==
    /\ delete_run.pc = "main"
    /\ \E config_ok \in BOOLEAN, response \in Responses :
        delete_run' =
            IF ~config_ok THEN DeleteExit(delete_run, 1)
            ELSE LET asked == IF delete_in.dry_run THEN delete_run
                              ELSE [delete_run EXCEPT !.response = response]
                 IN  IF Proceeds(delete_in.dry_run, response)
                     THEN [asked EXCEPT !.pc = "host", !.host = 1]
                     ELSE DeleteExit(asked, 0)
    /\ UNCHANGED <<delete_in, delete_vms, delete_calls>>
    /\ UNCHANGED <<secretsVars, deployVars, powerVars>>

\* The host loop of main() and the head of delete_vms_on_host: a host that
\* cannot be connected to gives False, RetrieveContent or the view raising
\* ends the program, a host with no VM to delete gives True. After the last
\* host main() returns the exit status.
DeleteOnHost ==
    /\ delete_run.pc = "host"
    /\ IF delete_run.host \notin DeleteHosts
       THEN delete_run' = DeleteExit(delete_run, ExitStatus(delete_run.results))
       ELSE \E connect \in {"ok", "failed", "raised"} :
            LET vms_to_delete == VmsToDelete(delete_vms[delete_run.host],
                                             ParseExclude(delete_in.exclude))
            IN  delete_run' =
                    CASE connect = "raised" -> DeleteExit(delete_run, 1)
                      [] connect = "failed" ->
                            [delete_run EXCEPT !.results = Append(@, FALSE),
                                               !.host = @ + 1]
                      [] connect = "ok" /\ vms_to_delete = <<>> ->
                            [delete_run EXCEPT !.results = Append(@, TRUE),
                                               !.host = @ + 1]
                      [] OTHER ->
                            [delete_run EXCEPT !.pc = "vm", !.success = TRUE,
                                               !.queue = vms_to_delete]
    /\ UNCHANGED <<delete_in, delete_vms, delete_calls>>
    /\ UNCHANGED <<secretsVars, deployVars, powerVars>>

\* The loop is past the last VM: `return success`.
DeleteHostDone ==
    /\ delete_run.pc = "vm"
    /\ delete_run.queue = <<>>
    /\ delete_run' = [delete_run EXCEPT
            !.pc = "host", !.results = Append(@, delete_run.success),
            !.host = @ + 1]
    /\ UNCHANGED <<delete_in, delete_vms, delete_calls>>
    /\ UNCHANGED <<secretsVars, deployVars, powerVars>>

\* The loop body up to the deletion: reading the VM's properties may raise;
\* in dry-run mode only the line is printed; a VM that is poweredOn gets
\* PowerOff, and the body continues as AfterPowerOff says.
DeletePowerOff ==
    /\ delete_run.pc = "vm"
    /\ delete_run.queue # <<>>
    /\ \E readable \in BOOLEAN, result \in {"success", "error", "raised"} :
        LET h == delete_run.host
            v == Head(delete_run.queue)
            seen == [delete_run EXCEPT
                        !.visited = Append(@, <<h, DeleteVM.name>>)]
        IN  IF ~readable
            THEN /\ delete_run' = DeleteExit(delete_run, 1)
                 /\ UNCHANGED <<delete_calls, delete_vms>>
            ELSE IF delete_in.dry_run
            THEN /\ delete_run' = [seen EXCEPT !.queue = Tail(@)]
                 /\ UNCHANGED <<delete_calls, delete_vms>>
            ELSE IF DeleteVM.power = "poweredOn"
            THEN /\ delete_calls' =
                        Append(delete_calls, DeleteCall("PowerOff", result))
                 /\ delete_vms' = IF result = "success"
                        THEN [delete_vms EXCEPT ![h][v].power = "poweredOff"]
                        ELSE delete_vms
                 /\ delete_run' =
                        IF AfterPowerOff(result) = "continue"
                        THEN [seen EXCEPT !.success = FALSE,
                                          !.queue = Tail(@)]
                        ELSE [seen EXCEPT !.pc = "destroy"]
            ELSE /\ delete_run' = [seen EXCEPT !.pc = "destroy"]
                 /\ UNCHANGED <<delete_calls, delete_vms>>
    /\ UNCHANGED delete_in
    /\ UNCHANGED <<secretsVars, deployVars, powerVars>>

\* The rest of the loop body: Destroy; a task error or an exception sets
\* success to False, and the loop goes on either way.
DeleteDestroy ==
    /\ delete_run.pc = "destroy"
    /\ \E result \in {"success", "error", "raised"} :
        /\ delete_calls' = Append(delete_calls, DeleteCall("Destroy", result))
        /\ delete_vms' = IF result = "success"
            THEN [delete_vms EXCEPT
                    ![delete_run.host][Head(delete_run.queue)].power =
                        "destroyed"]
            ELSE delete_vms
        /\ delete_run' = [delete_run EXCEPT
                !.pc = "vm", !.queue = Tail(@),
                !.success = @ /\ result = "success"]
    /\ UNCHANGED delete_in
    /\ UNCHANGED <<secretsVars, deployVars, powerVars>>

NextDelete ==
    \/ DeleteMain
    \/ DeleteOnHost
    \/ DeleteHostDone
    \/ DeletePowerOff
    \/ DeleteDestroy

SpecDelete == InitDelete /\ [][NextDelete]_vars

(***************************************************************************)
(* Properties of get_secret                                                *)
(***************************************************************************)
\* The last operation was a direct get_secret call.
WasGetSecret == last.op = "get_secret"

\* The variable named by the call is set to a non-empty value.
EnvSupplied ==
    /\ last.env_var # None
    /\ environ[last.env_var.s] \notin {None, Str("")}

\* The secrets file on disk is a mapping that holds the key of the call.
FileHasKey ==
    /\ secrets_file.t = "doc"
    /\ secrets_file.doc.t = "dict"
    /\ last.key \in DOMAIN secrets_file.doc.m

\* The secrets file supplies nothing for the key of the call: it is missing,
\* unreadable, malformed, empty, or a mapping without the key.
FileLacksKey ==
    \/ secrets_file.t \in {"absent", "unreadable", "malformed"}
    \/ /\ secrets_file.t = "doc"
       /\ \/ secrets_file.doc = None
          \/ /\ secrets_file.doc.t = "dict"
             /\ last.key \notin DOMAIN secrets_file.doc.m

NonEmptyString(v) == v.t = "str" /\ v.s # ""

\* C1: whenever env_var is given and the named variable is set to a
\* non-empty value, get_secret returns exactly that value, whatever the
\* secrets file and config_value hold.
C1_EnvironmentWins ==
    (WasGetSecret /\ EnvSupplied)
        => (last.kind = "return" /\ last.value = environ[last.env_var.s])

\* A call answered from the environment although the secrets file holds the
\* key and a config_value was passed.
C1_Witness ==
    /\ WasGetSecret /\ EnvSupplied /\ FileHasKey
    /\ secrets_file.doc.m[last.key] = Str("filepass")
    /\ last.config_value = Str("configpass")
    /\ last.value = Str("envpass")

C3_ConfigFallback ==
    (WasGetSecret /\ ~EnvSupplied /\ FileLacksKey
        /\ NonEmptyString(last.config_value))
        => (/\ last.kind = "return"
            /\ last.value = last.config_value
            /\ ~last.prompted)

\* A required call answered from config_value.
C3_Witness ==
    /\ WasGetSecret /\ ~EnvSupplied /\ FileLacksKey /\ last.required
    /\ last.config_value = Str("configpass")
    /\ last.value = Str("configpass")

\* C4: when no source supplies the key and required is False, get_secret
\* returns None: no empty string, no exception, no prompt.
C4_NoValueIsNone ==
    (WasGetSecret /\ ~EnvSupplied /\ FileLacksKey
        /\ ~NonEmptyString(last.config_value) /\ ~last.required)
        => (/\ last.kind = "return"
            /\ last.value = None
            /\ ~last.prompted)

\* A call with an empty config_value and an empty environment variable that
\* returned None.
C4_Witness ==
    /\ WasGetSecret /\ FileLacksKey /\ ~last.required
    /\ last.env_var # None /\ environ[last.env_var.s] = Str("")
    /\ last.config_value = Str("")
    /\ last.kind = "return" /\ last.value = None

\* C5: a get_secret call with required=True that returns, returns a
\* non-empty string.
C5_RequiredIsNonEmpty ==
    (WasGetSecret /\ last.required /\ last.kind = "return")
        => NonEmptyString(last.value)

\* C6: over the lifetime of an instance the secrets file is opened at most
\* once.
C6_OpenedAtMostOnce == opens <= 1

\* C7: once a lookup has found the secrets file absent, no later lookup asks
\* the filesystem again, so the instance is told at most once that there is
\* no file.
C7_AbsenceIsCached == absentProbes <= 1

\* What get_secret yields for the arguments of the last call on a fresh
\* instance when there is no secrets file at all.
AsIfAbsent ==
    GetSecret(None, [t |-> "absent"], environ, last.key, last.config_value,
              last.env_var, last.required,
              IF last.prompted THEN last.typed ELSE EOF)

\* The last call ended as it would have ended without a secrets file.
SameAsAbsent ==
    /\ last.kind = AsIfAbsent.kind
    /\ last.value = AsIfAbsent.value
    /\ last.exc = AsIfAbsent.exc
    /\ last.prompted = AsIfAbsent.prompted

\* C8 (as claimed): against a secrets file with invalid syntax, for every
\* environment, get_secret ends as it does without a secrets file and prints
\* a WARNING line.
C8_MalformedAsAbsentAlwaysWarns ==
    (WasGetSecret /\ secrets_file.t = "malformed")
        => (SameAsAbsent /\ last.warned)

\* C8 (amended): against a secrets file with invalid syntax get_secret ends
\* as it does without a secrets file (same value, same config fallback, same
\* prompt, no exception of its own), and it prints the WARNING line exactly
\* when the environment variable did not already supply the value.
C8_MalformedAsAbsent ==
    (WasGetSecret /\ secrets_file.t = "malformed")
        => (SameAsAbsent /\ (last.warned <=> ~EnvSupplied))

\* A required call against a malformed file that warned and then returned
\* what was typed at the prompt.
C8_Witness ==
    /\ WasGetSecret /\ secrets_file.t = "malformed"
    /\ last.warned /\ last.prompted
    /\ last.value = Str("typedpass")

\* C9: a typed wrapper returns a non-empty string: it never fails its
\* assertion and never returns None or "".
C9_WrapperReturnsPassword ==
    (last.op \in LookupOps \ {"get_secret"})
        => (/\ last.exc # "AssertionError"
            /\ last.kind = "return" => NonEmptyString(last.value))

(***************************************************************************)
(* Properties of load_config_with_secrets                                  *)
(***************************************************************************)
\* The recognized credential fields with their fixed key and variable.
Credentials ==
    {[section |-> "common", field |-> "root_password",
      key |-> "esxi_root_password", var |-> "VCF_ESXI_ROOT_PASSWORD"],
     [section |-> "vcf_installer", field |-> "root_password",
      key |-> "vcf_installer_root_password",
      var |-> "VCF_INSTALLER_ROOT_PASSWORD"],
     [section |-> "vcf_installer", field |-> "admin_password",
      key |-> "vcf_installer_admin_password",
      var |-> "VCF_INSTALLER_ADMIN_PASSWORD"],
     [section |-> "vcenter", field |-> "password",
      key |-> "vcenter_password", var |-> "VCF_VCENTER_PASSWORD"]}

\* load_config_with_secrets returned a document that is a mapping.
ReturnedMapping == loaded.kind = "return" /\ loaded.doc.t = "dict"

\* The value the field had in the file (None when the field is missing).
PriorValue(cr) ==
    LET sec == config_file.doc.m[cr.section].m
    IN  IF cr.field \in DOMAIN sec THEN sec[cr.field] ELSE None

\* What was typed at the prompt for a key (Absent when it was not asked).
TypedFor(key) ==
    IF \E i \in 1..Len(loaded.prompts) : loaded.prompts[i].key = key
    THEN loaded.prompts[CHOOSE i \in 1..Len(loaded.prompts) :
                            loaded.prompts[i].key = key].typed
    ELSE Absent

\* The required resolution of a credential: environment variable, then the
\* secrets file, then the prior value, then the prompt.
RequiredResolution(cr) ==
    IF environ[cr.var] \notin {None, Str("")}
    THEN environ[cr.var]
    ELSE IF /\ secrets_file.t = "doc"
            /\ secrets_file.doc.t = "dict"
            /\ cr.key \in DOMAIN secrets_file.doc.m
    THEN secrets_file.doc.m[cr.key]
    ELSE IF NonEmptyString(PriorValue(cr))
    THEN PriorValue(cr)
    ELSE TypedFor(cr.key)

\* C10: when load_config_with_secrets returns, every recognized field of
\* every section present in the document equals the required resolution of
\* its fixed (key, variable) pair with the field's prior value as fallback.
C10_FieldsAreResolved ==
    ReturnedMapping =>
        \A cr \in Credentials :
            cr.section \in DOMAIN loaded.doc.m =>
                /\ cr.field \in DOMAIN loaded.doc.m[cr.section].m
                /\ loaded.doc.m[cr.section].m[cr.field] = RequiredResolution(cr)

\* An empty common.root_password replaced by the value of
\* VCF_ESXI_ROOT_PASSWORD, in a document whose vcenter password came from
\* the prompt.
C10_Witness ==
    /\ ReturnedMapping
    /\ "common" \in DOMAIN loaded.doc.m /\ "vcenter" \in DOMAIN loaded.doc.m
    /\ PriorValue([section |-> "common", field |-> "root_password"]) = Str("")
    /\ environ["VCF_ESXI_ROOT_PASSWORD"] = Str("envpass")
    /\ loaded.doc.m["common"].m["root_password"] = Str("envpass")
    /\ loaded.doc.m["vcenter"].m["password"] = Str("typedpass")

\* C11: whenever load_config_with_secrets returns a document, every
\* recognized credential field of every section present in it holds a
\* non-empty string.
C11_FieldsAreNonEmpty ==
    ReturnedMapping =>
        \A cr \in Credentials :
            cr.section \in DOMAIN loaded.doc.m =>
                /\ cr.field \in DOMAIN loaded.doc.m[cr.section].m
                /\ NonEmptyString(loaded.doc.m[cr.section].m[cr.field])

\* load_config_with_secrets has run and ended.
LoadEnded == loaded.kind # "none"

\* C12: with no config file at the path, load_config_with_secrets prints the
\* ERROR line and exits with a non-zero status before a SecretsManager is
\* constructed, before the secrets file is touched and before any prompt.
C12_MissingConfigExitsFirst ==
    (LoadEnded /\ config_file.t = "absent")
        => (/\ loaded.kind = "exit"
            /\ loaded.status # 0
            /\ loaded.error
            /\ ~loaded.constructed
            /\ loaded.opens = 0 /\ loaded.absentProbes = 0
            /\ loaded.warnings = 0
            /\ loaded.prompts = <<>>
            /\ secrets_cache = None)

\* The exit on a missing config file in a process that has a secrets file
\* and a variable set, neither of which was looked at.
C12_Witness ==
    /\ LoadEnded /\ config_file.t = "absent"
    /\ loaded.kind = "exit" /\ loaded.status = 1
    /\ secrets_file.t = "doc" /\ secrets_file.doc.t = "dict"
    /\ environ["VCF_ESXI_ROOT_PASSWORD"] = Str("envpass")

\* The main config file is malformed: it does not parse, or it parses to
\* something that is no usable mapping of sections (an empty document, a
\* scalar, a list, or a mapping with a recognized section that is null).
ConfigMalformed ==
    \/ config_file.t = "malformed"
    \/ /\ config_file.t = "doc"
       /\ \/ config_file.doc.t # "dict"
          \/ \E cr \in Credentials :
                /\ cr.section \in DOMAIN config_file.doc.m
                /\ config_file.doc.m[cr.section] = None

\* C13: on a malformed main config file load_config_with_secrets stops the
\* process with the ERROR line and a non-zero exit status; it neither
\* returns a document nor ends in an uncaught exception.
C13_MalformedConfigExits ==
    (LoadEnded /\ ConfigMalformed)
        => (/\ loaded.kind = "exit"
            /\ loaded.error
            /\ loaded.status # 0)

\* The credential fields of a section.
CredentialFields(section) ==
    {cr.field : cr \in {c \in Credentials : c.section = section}}

\* C14: load_config_with_secrets changes only the recognized credential
\* fields: the returned document has the sections of the input (none added,
\* none dropped), every other section and every other field of common,
\* vcf_installer and vcenter is as it was in the file, and a document that
\* is no mapping is returned as it is.
C14_OnlyCredentialsChange ==
    (loaded.kind = "return")
        => IF loaded.doc.t # "dict"
           THEN loaded.doc = config_file.doc
           ELSE
           LET in == config_file.doc.m
               out == loaded.doc.m
           IN  /\ DOMAIN out = DOMAIN in
               /\ \A sec \in DOMAIN in :
                    IF CredentialFields(sec) = {}
                    THEN out[sec] = in[sec]
                    ELSE /\ out[sec].t = "dict"
                         /\ DOMAIN out[sec].m
                                = DOMAIN in[sec].m \cup CredentialFields(sec)
                         /\ \A f \in DOMAIN in[sec].m \ CredentialFields(sec) :
                                out[sec].m[f] = in[sec].m[f]

\* A returned document without a vcenter section whose common.root_password
\* was replaced while common.gateway and the network section stayed.
C14_Witness ==
    /\ ReturnedMapping
    /\ "vcenter" \notin DOMAIN config_file.doc.m
    /\ "vcenter" \notin DOMAIN loaded.doc.m
    /\ "common" \in DOMAIN loaded.doc.m
    /\ loaded.doc.m["common"].m["root_password"] = Str("filepass")
    /\ PriorValue([section |-> "common", field |-> "root_password"])
            = Str("configpass")
    /\ loaded.doc.m["common"].m["gateway"] = Str("10.0.0.1")
    /\ loaded.doc.m["network"] = config_file.doc.m["network"]

\* The variable counts as set for the report: it holds a non-empty value.
IsSet(env, var) == Truthy(EnvGet(env, var))

\* Other environments the process could have been started in: every
\* variable unset, empty or holding another secret.
OtherEnvironments == [EnvVars -> {None, Str(""), Str("hunter2")}]

\* The secret values of the model: no report may show one.
SecretValues == {"envpass", "hunter2", "filepass", "configpass", "typedpass"}

\* C15: the text get_secrets_info returns depends only on whether the
\* secrets file exists and on which of the four VCF_* variables are set (to
\* a non-empty value): in every environment that sets the same variables to
\* other values, with a secrets file of any other content, the report is
\* the same, and no line of it shows a secret value.
C15_ReportShowsPresenceOnly ==
    (last.op = "get_secrets_info")
        => /\ last.kind = "return"
           /\ \A env2 \in OtherEnvironments, d2 \in SecretsFileStates :
                ( /\ \A var \in EnvVars : IsSet(env2, var) = IsSet(environ, var)
                  /\ (d2.t = "absent") = (secrets_file.t = "absent") )
                    => GetSecretsInfo(secrets_cache, d2, env2).value
                            = last.value
           /\ \A i \in DOMAIN last.value.lines :
                last.value.lines[i].arg \notin SecretValues

\* A report in a process whose VCF_VCENTER_PASSWORD holds a secret and whose
\* secrets file holds every key: the variable's line says "is set".
C15_Witness ==
    /\ last.op = "get_secrets_info"
    /\ environ["VCF_VCENTER_PASSWORD"] = Str("envpass")
    /\ secrets_file.t = "doc" /\ secrets_file.doc.t = "dict"
    /\ "vcenter_password" \in DOMAIN secrets_file.doc.m
    /\ \E i \in DOMAIN last.value.lines :
            last.value.lines[i] = Line("ok", "VCF_VCENTER_PASSWORD", "is set")
    /\ \E i \in DOMAIN last.value.lines :
            last.value.lines[i].text = "Secrets file found: "

\* C18: has_secrets_file and get_secrets_info are pure observers. A step of
\* either leaves the cache as it was and opens (parses) nothing,
\* has_secrets_file returns True exactly when the file exists, and every
\* get_secret call gives after the step the outcome it would have given
\* before it.
C18_ObserversArePure ==
    [][ (last'.op \in ObserverOps)
            => /\ last'.kind = "return"
               /\ ~last'.opened
               /\ opens' = opens
               /\ secrets_cache' = secrets_cache
               /\ (last'.op = "has_secrets_file")
                    => last'.value = Bool(secrets_file.t # "absent")
               /\ \A key \in CallKeys, config_value \in ConfigValues,
                     env_var \in EnvVarArgs, required \in BOOLEAN :
                    GetSecret(secrets_cache', secrets_file', environ', key,
                              config_value, env_var, required,
                              Str("typedpass"))
                    = GetSecret(secrets_cache, secrets_file, environ, key,
                                config_value, env_var, required,
                                Str("typedpass")) ]_vars

\* has_secrets_file answered True for a file that holds secrets while the
\* instance had not loaded it, and the cache is still unpopulated.
C18_Witness ==
    /\ last.op = "has_secrets_file"
    /\ last.value = Bool(TRUE)
    /\ secrets_file.t = "doc" /\ secrets_file.doc.t = "dict"
    /\ "esxi_root_password" \in DOMAIN secrets_file.doc.m
    /\ secrets_cache = None
    /\ opens = 0

C17_EndOfInputFails ==
    (WasGetSecret /\ ~EnvSupplied /\ FileLacksKey
        /\ ~NonEmptyString(last.config_value) /\ last.required)
        => /\ last.prompted
           /\ (last.typed = EOF)
                => (/\ last.kind = "raise"
                    /\ last.exc = "EOFError"
                    /\ last.value = None)

\* A required call with no variable set, no secrets file and no config
\* value whose prompt hit end-of-input.
C17_Witness ==
    /\ WasGetSecret /\ last.required
    /\ last.env_var # None /\ environ[last.env_var.s] = None
    /\ secrets_file.t = "absent"
    /\ last.config_value = None
    /\ last.prompted /\ last.typed = EOF
    /\ last.kind = "raise" /\ last.exc = "EOFError"

\* The states of the secrets file the claim lists: missing, unreadable,
\* invalid syntax, or parsed to any document (empty, a mapping, a list, a
\* scalar).
ListedSecretsFileState ==
    secrets_file.t \in {"absent", "unreadable", "malformed", "doc"}

\* C19: in each of these states get_secret surfaces no exception caused by
\* the secrets file: it returns, or it fails only at the prompt.
C19_FileNeverRaises ==
    (WasGetSecret /\ ListedSecretsFileState)
        => \/ last.kind = "return"
           \/ last.kind = "raise" /\ last.exc = "EOFError"

\* The call got to the secrets file (it tested for it, or it had it cached)
\* and the file did not hold the key.
FileConsultedWithoutKey ==
    /\ last.probed \/ secrets_cache # None
    /\ ~( /\ secrets_file.t = "doc"
          /\ Truthy(secrets_file.doc)
          /\ KeyIn(last.key, secrets_file.doc) = "yes" )

\* C20: a get_secret call prompts only after the environment variable was
\* found missing, unset or empty, the secrets file was consulted and did not
\* hold the key, config_value was None or empty, and required is True; that
\* call prompts (the call record holds the one line read); every other call
\* does not prompt.
C20_PromptIsLastResort ==
    WasGetSecret =>
        ( last.prompted <=>
            ( /\ ~EnvSupplied
              /\ FileConsultedWithoutKey
              /\ last.exc \notin {"TypeError", "UnicodeDecodeError"}
              /\ ~NonEmptyString(last.config_value)
              /\ last.required ) )

\* A prompting call that found its variable empty, the cached secrets
\* mapping without its key and config_value empty, and returned the line
\* typed.
C20_Witness ==
    /\ WasGetSecret /\ last.prompted /\ last.required
    /\ last.env_var # None /\ environ[last.env_var.s] = Str("")
    /\ secrets_file.t = "doc" /\ secrets_file.doc.t = "dict"
    /\ secrets_file.doc.m # EmptyMap
    /\ last.key \notin DOMAIN secrets_file.doc.m
    /\ ~last.probed /\ secrets_cache = secrets_file.doc
    /\ last.config_value = Str("")
    /\ last.kind = "return" /\ last.value = Str("typedpass")

(***************************************************************************)
(* Properties of the cache, the file entry and the empty variable          *)
(***************************************************************************)
\* C21: the cache is one-shot: once the instance has learnt what the
\* secrets file is - here: that there is none - what happens to the file
\* later alters no get_secret result of that instance, so every call made
\* once the absence was found ends as it ends without a secrets file.
C21_CacheIsOneShot ==
    (WasGetSecret /\ absentProbes >= 1) => SameAsAbsent

\* The entry of the secrets file for the key of the call is null or "".
FileEntryIsEmpty ==
    /\ FileHasKey
    /\ secrets_file.doc.m[last.key] \in {None, Str("")}

WithoutEmpty(env) ==
    [v \in DOMAIN env |-> IF env[v] = Str("") THEN None ELSE env[v]]

\* C23: a variable set to the empty string is indistinguishable from an
\* unset one. Every get_secret call that names such a variable ends, and
\* leaves the instance, exactly as the same call does with the variable
\* unset, and every get_secrets_info report is the report made with the
\* variable unset and shows the variable as "not set".
C23_EmptyIsUnset ==
    [][ /\ ( /\ last'.op = "get_secret"
             /\ last'.env_var # None
             /\ environ[last'.env_var.s] = Str("") )
            => LET r == GetSecret(secrets_cache, secrets_file,
                                  WithoutEmpty(environ), last'.key,
                                  last'.config_value, last'.env_var,
                                  last'.required,
                                  IF last'.prompted THEN last'.typed ELSE EOF)
               IN  /\ last'.kind = r.kind
                   /\ last'.value = r.value
                   /\ last'.exc = r.exc
                   /\ last'.prompted = r.prompted
                   /\ last'.probed = r.probed
                   /\ last'.opened = r.opened
                   /\ secrets_cache' = r.cache
        /\ (last'.op = "get_secrets_info")
            => /\ last'.value
                    = GetSecretsInfo(secrets_cache, secrets_file,
                                     WithoutEmpty(environ)).value
               /\ \A i \in DOMAIN InfoEnvVars :
                    (environ[InfoEnvVars[i]] = Str(""))
                        => \E j \in DOMAIN last'.value.lines :
                            last'.value.lines[j]
                                = Line("", InfoEnvVars[i], "not set") ]_vars

\* A call that named a variable set to "" and went on to return the entry
\* of the secrets file.
C23_Witness ==
    /\ WasGetSecret
    /\ last.env_var # None /\ environ[last.env_var.s] = Str("")
    /\ FileHasKey
    /\ last.kind = "return" /\ last.value = Str("filepass")


\* The place of a key in the order in which load_config_with_secrets
\* resolves the credentials.
ResolutionOrder(key) ==
    CASE key = "esxi_root_password" -> 1
      [] key = "vcf_installer_root_password" -> 2
      [] key = "vcf_installer_admin_password" -> 3
      [] key = "vcenter_password" -> 4

\* C24: load_config_with_secrets resolves the credentials through one
\* SecretsManager in the order common.root_password,
\* vcf_installer.root_password, vcf_installer.admin_password,
\* vcenter.password: the prompts of a call appear in that order, and the
\* call parses the secrets file at most once (every open() of a file that
\* can be opened is followed by yaml.safe_load).
C24_OneInstanceInOrder ==
    LoadEnded
        => /\ \A i, j \in DOMAIN loaded.prompts :
                (i < j) => ResolutionOrder(loaded.prompts[i].key)
                            < ResolutionOrder(loaded.prompts[j].key)
           /\ (secrets_file.t # "unreadable") => loaded.opens <= 1


(***************************************************************************)
(* Properties of the scripts                                               *)
(***************************************************************************)
\* The password occurs in the argument in plaintext.
Occurs(password, arg) ==
    \E i \in 1..(Len(arg) - Len(password) + 1) :
        SubSeq(arg, i, i + Len(password) - 1) = password

\* C25: in dry-run mode no argument of the printed command shows
\* common.root_password, vcf_installer.root_password or
\* vcf_installer.admin_password in plaintext.
C25_DryRunMasksPasswords ==
    (deploy_out.kind = "dry_run")
        => \A i \in DOMAIN deploy_out.display_cmd :
            /\ ~Occurs(deploy_in.common_root_password,
                       deploy_out.display_cmd[i])
            /\ ~Occurs(deploy_in.root_password, deploy_out.display_cmd[i])
            /\ ~Occurs(deploy_in.admin_password, deploy_out.display_cmd[i])

\* The calls issued to VMs of the tier.
CallsOfTier(tier) ==
    {i \in DOMAIN power_calls : TierOf(power_calls[i].vm) = tier}

\* The loop iterations over VMs of the tier.
VisitsOfTier(tier) ==
    {i \in DOMAIN power_run.visited : TierOf(power_run.visited[i]) = tier}

\* C26: with --dry-run neither power_down_tier nor power_up_tier issues a
\* ShutdownGuest, PowerOff or PowerOn call to any VM, whatever the tier
\* configuration and the state of the VMs.
C26_DryRunIssuesNoCalls ==
    (power_in.t = "args" /\ power_in.dry_run) => power_calls = <<>>

\* A dry run has gone through a tier and passed a VM that a real run would
\* have shut down or powered on.
C26_Witness ==
    /\ power_in.t = "args"
    /\ power_in.dry_run
    /\ power_run.pc = "done"
    /\ power_run.exit = 0
    /\ \E i \in DOMAIN power_run.visited :
        LET vm == power_run.visited[i]
        IN  IF power_in.command = "power-down"
            THEN power_vms[vm] \in {"poweredOn", "suspended"}
            ELSE power_vms[vm] \in {"poweredOff", "suspended"}

\* C27: for the tier "all", power-down goes through tier3 before tier2 and
\* power-up through tier2 before tier3: every loop iteration and every call
\* for a VM of the earlier tier precedes those for VMs of the later tier, and
\* the later tier is begun only when every VM of an earlier tier that was
\* entered has been gone through. No tier1 VM is visited or called, and
\* power-down all visits no VM unless the answer to its prompt was yes in
\* any case of letters.
C27_AllTiersInOrder ==
    (power_in.t = "args" /\ power_in.tier = "all") =>
        LET first == IF power_in.command = "power-down" THEN "tier3"
                                                        ELSE "tier2"
            second == IF power_in.command = "power-down" THEN "tier2"
                                                         ELSE "tier3"
        IN  /\ \A i \in VisitsOfTier(first), j \in VisitsOfTier(second) : i < j
            /\ \A i \in CallsOfTier(first), j \in CallsOfTier(second) : i < j
            /\ (VisitsOfTier(second) # {} /\ VisitsOfTier(first) # {}) =>
                    Cardinality(VisitsOfTier(first)) = Len(TierVMs(first))
            /\ (VisitsOfTier(second) # {} /\ VisitsOfTier(first) = {}) =>
                    /\ power_in.command = "power-down"
                    /\ ~power_in.power_management[first]
            /\ VisitsOfTier("tier1") = {}
            /\ CallsOfTier("tier1") = {}
            /\ (power_in.command = "power-down"
                    /\ (power_run.visited # <<>> \/ power_calls # <<>>)) =>
                    Lower(power_run.response) = "yes"

\* power-down all, confirmed with YES, has gone through both tiers and has
\* issued calls to VMs of both.
C27_Witness ==
    /\ power_in.t = "args"
    /\ power_in.tier = "all"
    /\ power_in.command = "power-down"
    /\ power_run.response = "YES"
    /\ power_run.pc = "done"
    /\ power_run.visited = <<"opslogs01", "opsnet01", "opsfm01">>
    /\ CallsOfTier("tier3") # {}
    /\ CallsOfTier("tier2") # {}

\* The VM the loop is at has had ShutdownGuest and is not yet done with.
Handling == power_run.pc \in {"polling", "timeout", "force"}

\* The result of the ShutdownGuest call issued to the VM.
GracefulResult(vm) ==
    LET S == {i \in DOMAIN power_calls :
                power_calls[i].vm = vm /\ power_calls[i].op = "ShutdownGuest"}
    IN  IF S = {} THEN "none" ELSE power_calls[CHOOSE i \in S : TRUE].result

\* A step that issues PowerOff does so to a VM that has had ShutdownGuest,
\* and only if that call raised or no poll has observed the VM poweredOff;
\* no more than 60 polls are made; and the step of the except clause goes on
\* to the next VM of the tier whatever its PowerOff did.
PowerOffIsLastResort ==
    /\ (power_calls' # power_calls
            /\ power_calls'[Len(power_calls')].op = "PowerOff") =>
        LET vm == power_calls'[Len(power_calls')].vm
        IN  /\ GracefulResult(vm) # "none"
            /\ GracefulResult(vm) = "raised" \/ ~power_run.seenOff
    /\ power_run'.polls <= PollLimit
    /\ power_run.pc = "force" =>
        /\ power_run'.pc = "vm"
        /\ power_run'.idx = power_run.idx + 1
        /\ power_run'.exit = 0

\* C28: in a power_down_tier that is not a dry run, PowerOff is issued to a
\* VM only after ShutdownGuest was attempted on it, and only if ShutdownGuest
\* raised or no status poll observed the VM poweredOff; at most 60 polls are
\* made, the handling of a VM always comes to an end, and the loop then goes
\* on to the next VM even if PowerOff failed.
C28_GracefulBeforeForced ==
    /\ [][PowerOffIsLastResort]_vars
    /\ Handling ~> ~Handling

\* A run in which ShutdownGuest succeeded on the first tier3 VM, 60 polls
\* did not see it poweredOff, both PowerOff calls failed, and the loop went
\* on to the second VM.
C28_Witness ==
    /\ power_in.t = "args"
    /\ power_in.command = "power-down"
    /\ Len(power_calls) = 4
    /\ power_calls[1] = [vm |-> "opslogs01", op |-> "ShutdownGuest",
                         result |-> "ok"]
    /\ power_calls[2] = [vm |-> "opslogs01", op |-> "PowerOff",
                         result |-> "error"]
    /\ power_calls[3] = [vm |-> "opslogs01", op |-> "PowerOff",
                         result |-> "error"]
    /\ power_calls[4].vm = "opsnet01"
    /\ power_calls[4].op = "ShutdownGuest"

\* C29: delete_all_vms issues no PowerOff and no Destroy to any VM of any
\* host when it runs with --dry-run or when the answer to the confirmation
\* prompt is anything but yes in any case of letters.
C29_NoDeletionWithoutConsent ==
    (delete_in.t = "args" /\ delete_calls # <<>>) =>
        /\ ~delete_in.dry_run
        /\ Lower(delete_run.response) = "yes"

\* A dry run has gone through both hosts and has passed a VM that is
\* poweredOn and not excluded.
C29_Witness ==
    /\ delete_in.t = "args"
    /\ delete_in.dry_run
    /\ delete_run.pc = "done"
    /\ delete_run.results = <<TRUE, TRUE>>
    /\ \E i \in DOMAIN delete_run.visited :
        /\ delete_run.visited[i] = <<1, "test-vm">>
        /\ delete_vms[1][2].power = "poweredOn"
    /\ delete_calls = <<>>

\* The calls whose PowerOff failed: a task error or an exception.
FailedPowerOffs ==
    {i \in DOMAIN delete_calls :
        /\ delete_calls[i].op = "PowerOff"
        /\ delete_calls[i].result # "success"}

\* C30: no call is issued to a VM whose name is in the exclude list; a VM
\* whose PowerOff failed gets no Destroy, its host's result is False and the
\* program ends with status 1.
C30_ExcludedAndFailedAreKept ==
    delete_in.t = "args" =>
        /\ \A i \in DOMAIN delete_calls :
            delete_calls[i].vm \notin ParseExclude(delete_in.exclude)
        /\ \A i \in FailedPowerOffs :
            LET c == delete_calls[i]
            IN  /\ \A j \in DOMAIN delete_calls :
                    ~(/\ delete_calls[j].host = c.host
                      /\ delete_calls[j].vm = c.vm
                      /\ delete_calls[j].op = "Destroy")
                /\ delete_vms[c.host][CHOOSE v \in DOMAIN delete_vms[c.host] :
                        delete_vms[c.host][v].name = c.vm].power = "poweredOn"
                /\ IF c.host \in DOMAIN delete_run.results
                   THEN ~delete_run.results[c.host]
                   ELSE delete_run.pc # "done" => ~delete_run.success
                /\ delete_run.pc = "done" => delete_run.exit = 1

\* vc01 was excluded and left alone, PowerOff of test-vm failed, the VM of
\* the second host was deleted, and the program ended with status 1.
C30_Witness ==
    /\ delete_in.t = "args"
    /\ delete_in.exclude = <<"vc01">>
    /\ delete_run.pc = "done"
    /\ delete_run.exit = 1
    /\ delete_run.results = <<FALSE, TRUE>>
    /\ Len(delete_calls) = 3
    /\ delete_calls[1] = [host |-> 1, vm |-> "test-vm", op |-> "PowerOff",
                          result |-> "error"]
    /\ delete_calls[3] = [host |-> 2, vm |-> "sddcm01", op |-> "Destroy",
                          result |-> "success"]


====
